---- MODULE Spec2Model ----
(***************************************************************************)
(* Model of the DynEarthSol time-stepping driver (src/dynearthsol.cxx),    *)
(* 2D build (NDIMS = 2, THREED undefined).                                 *)
(*                                                                         *)
(* Every C++ double is modelled as an exact extended rational <<n, d>>    *)
(* with d >= 0 in lowest terms; <<1,0>>, <<-1,0>> and <<0,0>> stand for    *)
(* +inf, -inf and NaN, so that x/0 and 0/0 behave as in IEEE arithmetic.   *)
(* Rounding is not modelled.                                               *)
(***************************************************************************)
EXTENDS Integers, Sequences, FiniteSets, TLC

\* ------------------------------------------------------------------------
\* Extended rational arithmetic (the model of `double`)
\* ------------------------------------------------------------------------
IAbs(i) == IF i < 0 THEN -i ELSE i

Sgn(i) == IF i < 0 THEN -1 ELSE IF i = 0 THEN 0 ELSE 1

RECURSIVE GCD(_, _)
GCD(a, b) == IF b = 0 THEN a ELSE GCD(b, a % b)

Norm(n, d) ==
    IF d = 0 THEN <<Sgn(n), 0>>
    ELSE LET s == IF d < 0 THEN -1 ELSE 1
             g == GCD(IAbs(n), IAbs(d))
         IN  <<(s * n) \div g, (s * d) \div g>>

R(i) == <<i, 1>>

NaN == <<0, 0>>

IsNaN(a) == a = NaN

IsFinite(a) == a[2] # 0

RNeg(a) == <<-a[1], a[2]>>

RAdd(a, b) ==
    IF a[2] = 0 /\ b[2] = 0
    THEN IF a = b THEN a ELSE NaN
    ELSE IF a[2] = 0 THEN a
    ELSE IF b[2] = 0 THEN b
    ELSE LET g == GCD(a[2], b[2])
         IN  Norm(a[1] * (b[2] \div g) + b[1] * (a[2] \div g),
                  (a[2] \div g) * b[2])

RSub(a, b) == RAdd(a, RNeg(b))

\* the common factors are cancelled before the products are formed
RMul(a, b) ==
    IF a[2] = 0 \/ b[2] = 0 THEN Norm(a[1] * b[1], 0)
    ELSE LET g1 == GCD(IAbs(a[1]), b[2])
             g2 == GCD(IAbs(b[1]), a[2])
         IN  Norm((a[1] \div g1) * (b[1] \div g2),
                  (a[2] \div g2) * (b[2] \div g1))

\* 1 / b: 1/0 is +inf, 1/inf is 0, 1/NaN is NaN
RInv(b) == IF b[1] < 0 THEN <<-b[2], -b[1]>> ELSE <<b[2], b[1]>>

RDiv(a, b) == RMul(a, RInv(b))

RAbs(a) == <<IAbs(a[1]), a[2]>>

\* a < b and a <= b as C++ evaluates them (false when either side is NaN)
RLt(a, b) ==
    /\ ~IsNaN(a) /\ ~IsNaN(b)
    /\ IF a[2] = 0 /\ b[2] = 0 THEN a[1] < b[1]
       ELSE a[1] * b[2] < b[1] * a[2]

RLe(a, b) == ~IsNaN(a) /\ ~IsNaN(b) /\ (a = b \/ RLt(a, b))

\* ------------------------------------------------------------------------
\* Program constants (src/constants.hpp)
\* ------------------------------------------------------------------------
NDIMS == 2
NODES_PER_ELEM == NDIMS + 1
NSTR == (NDIMS * (NDIMS + 1)) \div 2

BOUNDX0 == 1
BOUNDX1 == 2
BOUNDY0 == 4
BOUNDY1 == 8
BOUNDZ0 == 16
BOUNDZ1 == 32

\* flag & bit, for a single-bit mask
HasFlag(flag, bit) == (flag \div bit) % 2 = 1

\* ------------------------------------------------------------------------
\* The initial mesh (create_new_mesh): a box [0, xlength] x [-zlength, 0]
\* with its 4 corners and 2 interior nodes, 6 counter-clockwise triangles.
\* Array indices are 0-based as in the source.
\* ------------------------------------------------------------------------
nnode == 6
nelem == 6

Nodes == 0 .. (nnode - 1)
Elems == 0 .. (nelem - 1)
Dims == 0 .. (NDIMS - 1)
Locals == 0 .. (NODES_PER_ELEM - 1)

xlength == 6
zlength == 4

Vec(x, z) == [d \in Dims |-> IF d = 0 THEN R(x) ELSE R(z)]

Coord0 ==
    [n \in Nodes |->
        CASE n = 0 -> Vec(0, -zlength)
          [] n = 1 -> Vec(xlength, -zlength)
          [] n = 2 -> Vec(xlength, 0)
          [] n = 3 -> Vec(0, 0)
          [] n = 4 -> Vec(2, -2)
          [] n = 5 -> Vec(4, -2)]

Tri(a, b, c) == [i \in Locals |-> IF i = 0 THEN a ELSE IF i = 1 THEN b ELSE c]

connectivity ==
    [e \in Elems |->
        CASE e = 0 -> Tri(0, 1, 4)
          [] e = 1 -> Tri(1, 5, 4)
          [] e = 2 -> Tri(1, 2, 5)
          [] e = 3 -> Tri(2, 3, 5)
          [] e = 4 -> Tri(3, 4, 5)
          [] e = 5 -> Tri(3, 0, 4)]

\* node flags: the OR of the flags of the boundary segments at the node
bcflag ==
    [n \in Nodes |->
        CASE n = 0 -> BOUNDX0 + BOUNDZ0
          [] n = 1 -> BOUNDX1 + BOUNDZ0
          [] n = 2 -> BOUNDX1 + BOUNDZ1
          [] n = 3 -> BOUNDX0 + BOUNDZ1
          [] n = 4 -> 0
          [] n = 5 -> 0]

\* ------------------------------------------------------------------------
\* Material properties of the single material created by create_matprops:
\* density rho, heat capacity cp, thermal conductivity k
\* ------------------------------------------------------------------------
MatDensity == 6
MatCp == 1
MatK == 1

\* ------------------------------------------------------------------------
\* Geometry kernel
\* ------------------------------------------------------------------------
ZeroNodes == [n \in Nodes |-> R(0)]
ZeroElems == [e \in Elems |-> R(0)]
ZeroVec == [n \in Nodes |-> [d \in Dims |-> R(0)]]
ZeroShp == [e \in Elems |-> [i \in Locals |-> R(0)]]
ZeroStr == [e \in Elems |-> [s \in 0 .. (NSTR - 1) |-> R(0)]]

\* the element loop "for e, for i: acc[conn[e][i]] += contrib[e][i]"
RECURSIVE Scatter(_, _, _)
Scatter(k, acc, contrib) ==
    IF k = nelem * NODES_PER_ELEM THEN acc
    ELSE LET e == k \div NODES_PER_ELEM
             i == k % NODES_PER_ELEM
             n == connectivity[e][i]
         IN  Scatter(k + 1, [acc EXCEPT ![n] = RAdd(@, contrib[e][i])], contrib)

\* twice the signed area of element e: (b - a) x (c - a)
SignedArea2(coord, e) ==
    LET a == coord[connectivity[e][0]]
        b == coord[connectivity[e][1]]
        c == coord[connectivity[e][2]]
    IN  RSub(RMul(RSub(b[0], a[0]), RSub(c[1], a[1])),
             RMul(RSub(b[1], a[1]), RSub(c[0], a[0])))

\* compute_volume: element volume 1/2 |(p1-p0) x (p2-p0)|
compute_volume(coord) ==
    [e \in Elems |-> RDiv(RAbs(SignedArea2(coord, e)), R(2))]

\* compute_volume: volume_n[n] = sum of volume[e] / NODES_PER_ELEM
compute_volume_n(vol) ==
    Scatter(0, ZeroNodes,
            [e \in Elems |-> [i \in Locals |-> RDiv(vol[e], R(NODES_PER_ELEM))]])

\* compute_mass: lumped mass, rho * V / NODES_PER_ELEM to each node
compute_mass(vol) ==
    Scatter(0, ZeroNodes,
            [e \in Elems |-> [i \in Locals |->
                RDiv(RMul(R(MatDensity), vol[e]), R(NODES_PER_ELEM))]])

\* compute_mass: lumped thermal capacitance, rho * cp * V / NODES_PER_ELEM
compute_tmass(vol) ==
    Scatter(0, ZeroNodes,
            [e \in Elems |-> [i \in Locals |->
                RDiv(RMul(R(MatDensity * MatCp), vol[e]), R(NODES_PER_ELEM))]])

\* compute_shape_fn: dN_i/dx = (z_j - z_k) / (NDIMS * V), (i, j, k) cyclic
compute_shpdx(coord, vol) ==
    [e \in Elems |-> [i \in Locals |->
        LET j == connectivity[e][(i + 1) % NODES_PER_ELEM]
            k == connectivity[e][(i + 2) % NODES_PER_ELEM]
        IN  RDiv(RSub(coord[j][1], coord[k][1]), RMul(R(NDIMS), vol[e]))]]

\* compute_shape_fn: dN_i/dz = (x_k - x_j) / (NDIMS * V), (i, j, k) cyclic
compute_shpdz(coord, vol) ==
    [e \in Elems |-> [i \in Locals |->
        LET j == connectivity[e][(i + 1) % NODES_PER_ELEM]
            k == connectivity[e][(i + 2) % NODES_PER_ELEM]
        IN  RDiv(RSub(coord[k][0], coord[j][0]), RMul(R(NDIMS), vol[e]))]]

\* ------------------------------------------------------------------------
\* Bounds of the model
\* ------------------------------------------------------------------------
MaxSteps == 12

\* steps after which a run with thermal contrast is cut (keeps the exact
\* rational temperatures small)
MaxHotSteps == 2

\* values of sim.max_steps in the configuration (0: the loop body still
\* runs once)
MaxStepsValues == {0, MaxHotSteps, MaxSteps}

\* values of sim.max_time_in_yr * YEAR2SEC
MaxTimeValues == {R(3), R(1000)}

\* values returned by compute_dt
DtValues == {R(1), R(2)}

\* values of bc.max_vbc_val: converging, none, diverging
VbcValues == {R(-1), R(0), R(1)}

\* values of bc.surface_temperature and bc.mantle_temperature
SurfaceTValues == {R(1)}
MantleTValues == {R(1), R(3)}

RheologyNames ==
    {"elastic", "viscous", "maxwell", "elasto-plastic", "elasto-viscous-plastic"}

\* the enumerators of MatProps
rh_elastic == "rh_elastic"
rh_viscous == "rh_viscous"
rh_maxwell == "rh_maxwell"
rh_ep == "rh_ep"
rh_evp == "rh_evp"

RheolTypes == {rh_elastic, rh_viscous, rh_maxwell, rh_ep, rh_evp}

\* the if-else chain of validate_parameters over mat.rheology_type
rheol_type_of(str) ==
    IF str = "elastic" THEN rh_elastic
    ELSE IF str = "viscous" THEN rh_viscous
    ELSE IF str = "maxwell" THEN rh_maxwell
    ELSE IF str = "elasto-plastic" THEN rh_ep
    ELSE rh_evp

OutputStepValues == {1, 2}

\* std::numeric_limits<int>::max() of an int narrowed to 6 bits, so that a
\* run can reach it; every count the model compares with it stays below it
\* unless a missing configuration key has been replaced by it
INT_MAX == 31
OutputTimeValues == {R(4), R(1000)}

\* ------------------------------------------------------------------------
\* State
\* ------------------------------------------------------------------------
VARIABLES
    pc,           \* position of main()
    exit_code,    \* value returned by main(), -2 while running
    param,        \* Param after get_input_parameters
    steps, time, dt, frame,        \* var.steps, var.time, var.dt, var.frame
    coord, vel, force,             \* per-node vectors
    temperature, tdot,             \* per-node scalars (tdot is var.tmp0)
    volume, volume_old, volume_n,  \* per-element / per-node volumes
    mass, tmass,                   \* lumped mass and thermal capacitance
    shpdx, shpdz,                  \* shape function gradients
    strain_rate,                   \* per-element strain rate
    mat_rheol,                     \* rheology type of var.mat
    cfg,                           \* the configuration file given to main()
    call, ret,                     \* a function called on its own: arguments, result
    rpc,                           \* position of remesh()
    mesh,                          \* the mesh arrays held by var
    old_mesh,                      \* old_coord, old_connectivity, ... of remesh()
    q,                             \* qcoord, qsegment, qsegflag, old_nnode, old_nseg
    points_to_delete,              \* points_to_delete of new_mesh()
    tri                            \* what the triangulator returned

clock == <<steps, time, dt, frame>>
kinem == <<coord, vel, force>>
thermal == <<temperature, tdot>>
geom == <<volume, volume_old, volume_n, mass, tmass, shpdx, shpdz>>
remeshing == <<rpc, mesh, old_mesh, q, points_to_delete, tri>>
aux == <<cfg, call, ret, remeshing>>
vars == <<pc, exit_code, param, clock, kinem, thermal, geom, strain_rate, mat_rheol,
          aux>>

\* values of the variables of the parts of the program that are not running
None == [none |-> TRUE]

AuxIdle ==
    /\ cfg = None /\ call = None /\ ret = None
    /\ rpc = "idle" /\ mesh = None /\ old_mesh = None /\ q = None
    /\ points_to_delete = <<>> /\ tri = None

\* ------------------------------------------------------------------------
\* The functions of dynearthsol.cxx
\* ------------------------------------------------------------------------

\* erf(-z / sqrt(4 * diffusivity * age)): one length unit of the model is
\* many diffusion lengths, where erf in double precision is exactly +-1
HalfSpaceErf(z) ==
    IF IsNaN(z) THEN NaN
    ELSE IF z[1] = 0 THEN R(0)
    ELSE IF z[1] < 0 THEN R(1) ELSE R(-1)

initial_temperature(p, x) ==
    [i \in Nodes |->
        RAdd(p.surface_temperature,
             RMul(RSub(p.mantle_temperature, p.surface_temperature),
                  HalfSpaceErf(x[i][NDIMS - 1])))]

\* variant: both x boundaries get the same sign
apply_vbcs_samesign(p, v) ==
    [i \in Nodes |->
        LET flag == bcflag[i]
            vx == IF HasFlag(flag, BOUNDX0) THEN p.max_vbc_val
                  ELSE IF HasFlag(flag, BOUNDX1) THEN p.max_vbc_val
                  ELSE v[i][0]
            vz == IF HasFlag(flag, BOUNDZ0) THEN v[i][NDIMS - 1]
                  ELSE IF HasFlag(flag, BOUNDZ1) THEN R(0)
                  ELSE v[i][NDIMS - 1]
        IN  [d \in Dims |-> IF d = 0 THEN vx ELSE vz]]

apply_vbcs(p, v) ==
    [i \in Nodes |->
        LET flag == bcflag[i]
            vx == IF HasFlag(flag, BOUNDX0) THEN RNeg(p.max_vbc_val)
                  ELSE IF HasFlag(flag, BOUNDX1) THEN p.max_vbc_val
                  ELSE v[i][0]
            vz == IF HasFlag(flag, BOUNDZ0) THEN v[i][NDIMS - 1]
                  ELSE IF HasFlag(flag, BOUNDZ1) THEN R(0)
                  ELSE v[i][NDIMS - 1]
        IN  [d \in Dims |-> IF d = 0 THEN vx ELSE vz]]

\* D[i][j] of element e
DiffusionMatrix(e, i, j) ==
    RAdd(RMul(shpdx[e][i], shpdx[e][j]), RMul(shpdz[e][i], shpdz[e][j]))

\* sum over j of D[i][j] * temperature[conn[j]], accumulated in order
RECURSIVE Diffusion(_, _, _, _)
Diffusion(T, e, i, j) ==
    IF j = NODES_PER_ELEM THEN R(0)
    ELSE RAdd(Diffusion(T, e, i, j + 1),
              RMul(DiffusionMatrix(e, i, j), T[connectivity[e][j]]))

\* the element loop of update_temperature: tdot[conn[i]] += diffusion * kv
compute_tdot(T) ==
    Scatter(0, ZeroNodes,
            [e \in Elems |-> [i \in Locals |->
                RMul(Diffusion(T, e, i, 0), RMul(R(MatK), volume[e]))]])

\* variant: the bottom boundary is clamped instead of the top boundary
update_temperature_bottom(p, T, td) ==
    [n \in Nodes |->
        IF HasFlag(bcflag[n], BOUNDZ0) THEN p.surface_temperature
        ELSE RSub(T[n], RDiv(RMul(td[n], dt), tmass[n]))]

\* the node loop of update_temperature
update_temperature(p, T, td) ==
    [n \in Nodes |->
        IF HasFlag(bcflag[n], BOUNDZ1) THEN p.surface_temperature
        ELSE RSub(T[n], RDiv(RMul(td[n], dt), tmass[n]))]

\* sum over the nodes i of element e of term(i)
RECURSIVE SumLocal(_, _)
SumLocal(term, i) ==
    IF i = NODES_PER_ELEM THEN R(0) ELSE RAdd(term[i], SumLocal(term, i + 1))

update_strain_rate ==
    [e \in Elems |->
        LET v == [i \in Locals |-> vel[connectivity[e][i]]]
            half == <<1, 2>>
            xx == SumLocal([i \in Locals |-> RMul(v[i][0], shpdx[e][i])], 0)
            zz == SumLocal([i \in Locals |-> RMul(v[i][NDIMS - 1], shpdz[e][i])], 0)
            xz == SumLocal([i \in Locals |->
                      RMul(half, RAdd(RMul(v[i][0], shpdz[e][i]),
                                      RMul(v[i][NDIMS - 1], shpdx[e][i])))], 0)
        IN  [s \in 0 .. (NSTR - 1) |-> IF s = 0 THEN xx ELSE IF s = 1 THEN zz ELSE xz]]

\* variant: the force factor is dropped
update_velocity_noforce(v, f, m) ==
    [n \in Nodes |-> [d \in Dims |-> RAdd(v[n][d], RDiv(dt, m[n]))]]

\* v[i] += dt * f[i] / m[n] with n = i / NDIMS, m the array the code passes
update_velocity(v, f, m) ==
    [n \in Nodes |-> [d \in Dims |->
        RAdd(v[n][d], RDiv(RMul(dt, f[n][d]), m[n]))]]

\* variant: the time step is dropped
update_coordinate_nodt(x, v) ==
    [n \in Nodes |-> [d \in Dims |-> RAdd(x[n][d], v[n][d])]]

\* x[i] += v[i] * dt
update_coordinate(x, v) ==
    [n \in Nodes |-> [d \in Dims |-> RAdd(x[n][d], RMul(v[n][d], dt))]]

\* the outcomes of var.steps == var.frame * param.sim.output_step_interval:
\* a product beyond INT_MAX is a signed overflow, after which the
\* comparison can give either answer
StepDueOutcomes ==
    IF frame * param.output_step_interval > INT_MAX THEN BOOLEAN
    ELSE {steps = frame * param.output_step_interval}

\* var.time > var.frame * param.sim.output_time_interval_in_yr * YEAR2SEC
TimeDue == RLt(RMul(R(frame), param.output_time_interval), time)

\* the output condition of the main loop
OutputDue(step_due) == step_due \/ TimeDue

\* var.frame ++, which wraps around beyond INT_MAX
NextFrame == IF frame = INT_MAX THEN -INT_MAX - 1 ELSE frame + 1

\* variant: the step count is compared with <= instead of <
LoopContinues_offbyone ==
    /\ steps <= param.max_steps
    /\ RLe(time, param.max_time)

\* the loop condition of the main loop
LoopContinues ==
    /\ steps < param.max_steps
    /\ RLe(time, param.max_time)

\* ------------------------------------------------------------------------
\* Initial state: main() after get_input_parameters, static var zeroed
\* ------------------------------------------------------------------------
Params ==
    { p \in [max_steps : MaxStepsValues,
             max_time : MaxTimeValues,
             output_step_interval : OutputStepValues,
             output_time_interval : OutputTimeValues,
             max_vbc_val : VbcValues,
             surface_temperature : SurfaceTValues,
             mantle_temperature : MantleTValues,
             rheol_type : RheolTypes] :
        p.mantle_temperature # p.surface_temperature => p.max_steps <= MaxHotSteps }

Init ==
    /\ pc = "init"
    /\ exit_code = -2
    /\ param \in Params
    /\ steps = 0 /\ time = R(0) /\ dt = R(0) /\ frame = 0
    /\ coord = ZeroVec /\ vel = ZeroVec /\ force = ZeroVec
    /\ temperature = ZeroNodes /\ tdot = ZeroNodes
    /\ volume = ZeroElems /\ volume_old = ZeroElems /\ volume_n = ZeroNodes
    /\ mass = ZeroNodes /\ tmass = ZeroNodes
    /\ shpdx = ZeroShp /\ shpdz = ZeroShp
    /\ strain_rate = ZeroStr
    /\ mat_rheol = "none"
    /\ AuxIdle

\* ------------------------------------------------------------------------
\* Actions: the statements of main(), in program order
\* ------------------------------------------------------------------------

\* init(param, var); output(param, var); var.frame++; var.dt = compute_dt()
DoInit ==
    /\ pc = "init"
    /\ coord' = Coord0
    /\ mat_rheol' = rh_maxwell
    /\ volume' = compute_volume(coord')
    /\ volume_n' = compute_volume_n(volume')
    /\ volume_old' = volume'
    /\ mass' = compute_mass(volume')
    /\ tmass' = compute_tmass(volume')
    /\ shpdx' = compute_shpdx(coord', volume')
    /\ shpdz' = compute_shpdz(coord', volume')
    /\ temperature' = initial_temperature(param, coord')
    /\ vel' = apply_vbcs(param, vel)
    /\ frame' = frame + 1
    /\ dt' \in DtValues
    /\ pc' = "step_begin"
    /\ UNCHANGED <<aux, exit_code, param, steps, time, force, tdot, strain_rate>>

\* variant: the temperature update is not the first call of the step
StepBegin_notemp ==
    /\ pc = "step_begin"
    /\ steps' = steps + 1
    /\ time' = RAdd(time, dt)
    /\ pc' = "update_strain_rate"
    /\ UNCHANGED <<aux, exit_code, param, dt, frame, kinem, thermal, geom,
                   strain_rate, mat_rheol>>

\* var.steps++; var.time += var.dt
StepBegin ==
    /\ pc = "step_begin"
    /\ steps' = steps + 1
    /\ time' = RAdd(time, dt)
    /\ pc' = "update_temperature"
    /\ UNCHANGED <<aux, exit_code, param, dt, frame, kinem, thermal, geom,
                   strain_rate, mat_rheol>>

UpdateTemperature ==
    /\ pc = "update_temperature"
    /\ tdot' = compute_tdot(temperature)
    /\ temperature' = update_temperature(param, temperature, tdot')
    /\ pc' = "update_strain_rate"
    /\ UNCHANGED <<aux, exit_code, param, clock, kinem, geom, strain_rate, mat_rheol>>

UpdateStrainRate ==
    /\ pc = "update_strain_rate"
    /\ strain_rate' = update_strain_rate
    /\ pc' = "update_stress"
    /\ UNCHANGED <<aux, exit_code, param, clock, kinem, thermal, geom, mat_rheol>>

\* update_stress applies the rheology of var.mat (rheology.cxx is not part
\* of the sources; the stress arrays are not modelled)
UpdateStress ==
    /\ pc = "update_stress"
    /\ pc' = "update_force"
    /\ UNCHANGED <<aux, exit_code, param, clock, kinem, thermal, geom,
                   strain_rate, mat_rheol>>

\* void update_force() {}
UpdateForce ==
    /\ pc = "update_force"
    /\ pc' = "update_velocity"
    /\ UNCHANGED <<aux, exit_code, param, clock, kinem, thermal, geom,
                   strain_rate, mat_rheol>>

UpdateVelocity ==
    /\ pc = "update_velocity"
    /\ vel' = update_velocity(vel, force, volume)
    /\ pc' = "apply_vbcs"
    /\ UNCHANGED <<aux, exit_code, param, clock, coord, force, thermal, geom,
                   strain_rate, mat_rheol>>

ApplyVbcs ==
    /\ pc = "apply_vbcs"
    /\ vel' = apply_vbcs(param, vel)
    /\ pc' = "update_mesh"
    /\ UNCHANGED <<aux, exit_code, param, clock, coord, force, thermal, geom,
                   strain_rate, mat_rheol>>

UpdateMesh ==
    /\ pc = "update_mesh"
    /\ coord' = update_coordinate(coord, vel)
    /\ volume_old' = volume
    /\ volume' = compute_volume(coord')
    /\ volume_n' = compute_volume_n(volume')
    /\ mass' = compute_mass(volume')
    /\ tmass' = compute_tmass(volume')
    /\ shpdx' = compute_shpdx(coord', volume')
    /\ shpdz' = compute_shpdz(coord', volume')
    /\ pc' = "compute_dt"
    /\ UNCHANGED <<aux, exit_code, param, clock, vel, force, thermal,
                   strain_rate, mat_rheol>>

\* variant: dt is recomputed in every step
ComputeDt_everystep ==
    /\ pc = "compute_dt"
    /\ dt' \in DtValues
    /\ pc' = "rotate_stress"
    /\ UNCHANGED <<aux, exit_code, param, steps, time, frame, kinem, thermal, geom,
                   strain_rate, mat_rheol>>

\* if (var.steps % 10 == 0) var.dt = compute_dt(param, var);
ComputeDt ==
    /\ pc = "compute_dt"
    /\ IF steps % 10 = 0 THEN dt' \in DtValues ELSE dt' = dt
    /\ pc' = "rotate_stress"
    /\ UNCHANGED <<aux, exit_code, param, steps, time, frame, kinem, thermal, geom,
                   strain_rate, mat_rheol>>

\* void rotate_stress() {}
RotateStress ==
    /\ pc = "rotate_stress"
    /\ pc' = "output"
    /\ UNCHANGED <<aux, exit_code, param, clock, kinem, thermal, geom,
                   strain_rate, mat_rheol>>

Output ==
    /\ pc = "output"
    /\ \E step_due \in StepDueOutcomes :
          frame' = IF OutputDue(step_due) THEN NextFrame ELSE frame
    /\ pc' = "loop_check"
    /\ UNCHANGED <<aux, exit_code, param, steps, time, dt, kinem, thermal, geom,
                   strain_rate, mat_rheol>>

\* } while (steps < max_steps && time <= max_time_in_yr * YEAR2SEC); return 0;
LoopCheck ==
    /\ pc = "loop_check"
    /\ IF LoopContinues
       THEN pc' = "step_begin" /\ exit_code' = exit_code
       ELSE pc' = "done" /\ exit_code' = 0
    /\ UNCHANGED <<aux, param, clock, kinem, thermal, geom, strain_rate, mat_rheol>>

Next ==
    \/ DoInit
    \/ StepBegin
    \/ UpdateTemperature
    \/ UpdateStrainRate
    \/ UpdateStress
    \/ UpdateForce
    \/ UpdateVelocity
    \/ ApplyVbcs
    \/ UpdateMesh
    \/ ComputeDt
    \/ RotateStress
    \/ Output
    \/ LoopCheck

Spec == Init /\ [][Next]_vars

\* ------------------------------------------------------------------------
\* update_velocity and apply_vbcs as functions of their arguments: the state
\* is the one after init and the first statements of a step, with the force
\* array (left zero by the empty update_force of this file) drawn from a set
\* ------------------------------------------------------------------------
ForceValues == {R(-12), R(0), R(12)}

VelParams ==
    { p \in Params :
        /\ p.max_steps = 0 /\ p.max_time = R(3)
        /\ p.output_step_interval = 1 /\ p.output_time_interval = R(4)
        /\ p.rheol_type = rh_maxwell }

InitVel ==
    /\ pc = "update_velocity"
    /\ exit_code = -2
    /\ param \in VelParams
    /\ dt \in DtValues
    /\ steps = 1 /\ time = dt /\ frame = 1
    /\ coord = Coord0
    /\ vel = apply_vbcs(param, ZeroVec)
    /\ \E k \in Nodes : \E fx \in ForceValues : \E fz \in ForceValues :
          force = [n \in Nodes |-> [d \in Dims |->
                      IF n # k THEN R(0) ELSE IF d = 0 THEN fx ELSE fz]]
    /\ temperature = initial_temperature(param, Coord0)
    /\ tdot = ZeroNodes
    /\ volume = compute_volume(Coord0)
    /\ volume_old = volume
    /\ volume_n = compute_volume_n(volume)
    /\ mass = compute_mass(volume)
    /\ tmass = compute_tmass(volume)
    /\ shpdx = compute_shpdx(Coord0, volume)
    /\ shpdz = compute_shpdz(Coord0, volume)
    /\ strain_rate = ZeroStr
    /\ mat_rheol = rh_maxwell
    /\ AuxIdle

NextVel ==
    \/ UpdateVelocity
    \/ ApplyVbcs

SpecVel == InitVel /\ [][NextVel]_vars

\* ------------------------------------------------------------------------
\* Properties
\* ------------------------------------------------------------------------

\* position of a statement inside the loop body
Stage ==
    CASE pc = "step_begin" -> 0
      [] pc = "update_temperature" -> 1
      [] pc = "update_strain_rate" -> 2
      [] pc = "update_stress" -> 3
      [] pc = "update_force" -> 4
      [] pc = "update_velocity" -> 5
      [] pc = "apply_vbcs" -> 6
      [] pc = "update_mesh" -> 7
      [] pc = "compute_dt" -> 8
      [] pc = "rotate_stress" -> 9
      [] pc = "output" -> 10
      [] pc = "loop_check" -> 11
      [] OTHER -> 12

\* number of statements left to run when at most N steps are allowed
Remaining(N) ==
    IF pc = "init" THEN 12 * N + 1
    ELSE IF pc = "done" THEN 0
    ELSE IF pc = "step_begin" THEN 12 * (N - steps)
    ELSE 12 * (N - steps) + 12 - Stage

\* C1: the loop body runs at least once; after a completed step the loop
\* continues iff steps < max_steps and time <= max_time; the run ends only
\* from the loop test, with exit code 0, after at most max(1, max_steps)
\* steps (every statement strictly decreases the number of statements left
\* within that budget, so the run terminates).
StepBudget == IF param.max_steps < 1 THEN 1 ELSE param.max_steps

C1_StateInv ==
    /\ pc \in {"loop_check", "done"} => steps >= 1
    /\ steps <= StepBudget
    /\ Remaining(StepBudget) >= 0
    /\ exit_code = (IF pc = "done" THEN 0 ELSE -2)

C1_LoopTest ==
    /\ pc = "loop_check" =>
          ((pc' = "step_begin") <=>
              (steps < param.max_steps /\ RLe(time, param.max_time)))
    /\ pc = "loop_check" => pc' \in {"step_begin", "done"}
    /\ pc' = "done" => pc \in {"loop_check", "done"}
    /\ Remaining(StepBudget)' < Remaining(StepBudget)

C1_DriverLoop ==
    /\ [] C1_StateInv
    /\ [][C1_LoopTest]_vars

C1_Witness ==
    /\ pc = "done" /\ exit_code = 0
    /\ steps = param.max_steps /\ steps > 1

C2_StepOrderStep ==
    /\ pc = "step_begin" => pc' = "update_temperature"
    /\ pc = "update_temperature" =>
          /\ pc' = "update_strain_rate"
          /\ coord' = coord /\ geom' = geom /\ steps' = steps
    /\ pc = "update_strain_rate" => pc' = "update_stress"
    /\ pc = "update_stress" => pc' = "update_force"
    /\ pc = "update_force" => pc' = "update_velocity"
    /\ pc = "update_velocity" => pc' = "apply_vbcs"
    /\ pc = "apply_vbcs" => pc' = "update_mesh"
    /\ pc = "update_mesh" => pc' = "compute_dt" /\ temperature' = temperature
    /\ pc = "compute_dt" => pc' = "rotate_stress"

C3_ExpectedVel ==
    [n \in Nodes |-> [d \in Dims |->
        RAdd(vel[n][d], RDiv(RMul(dt, force[n][d]), mass[n]))]]

C3_Original == [][pc = "update_velocity" => vel' = C3_ExpectedVel]_vars

\* C4 (as stated): the rheology of var.mat, which the stress update applies,
\* is the one named by mat.rheology_type in the configuration.
C4_Original == pc # "init" => mat_rheol = param.rheol_type

\* C5: after init and after every completed step (in every state except the
\* one between the velocity update and the re-application of the BCs) the
\* BOUNDX0 nodes have v_x = -max_vbc_val, the BOUNDX1 nodes v_x =
\* +max_vbc_val and the BOUNDZ1 nodes v_z = 0; the BCs are applied right
\* after the velocity update and right before the coordinate update, which
\* therefore moves the boundary nodes by exactly the BC velocity times dt.
OneFlagPerAxis(n) ==
    /\ ~(HasFlag(bcflag[n], BOUNDX0) /\ HasFlag(bcflag[n], BOUNDX1))
    /\ ~(HasFlag(bcflag[n], BOUNDZ0) /\ HasFlag(bcflag[n], BOUNDZ1))

VbcsHold ==
    \A n \in Nodes : OneFlagPerAxis(n) =>
        /\ HasFlag(bcflag[n], BOUNDX0) => vel[n][0] = RNeg(param.max_vbc_val)
        /\ HasFlag(bcflag[n], BOUNDX1) => vel[n][0] = param.max_vbc_val
        /\ HasFlag(bcflag[n], BOUNDZ1) => vel[n][NDIMS - 1] = R(0)

C5_StateInv == pc \notin {"init", "apply_vbcs"} => VbcsHold

C5_Step ==
    /\ pc = "update_velocity" => pc' = "apply_vbcs"
    /\ pc = "apply_vbcs" => pc' = "update_mesh" /\ coord' = coord
    /\ pc = "update_mesh" =>
          \A n \in Nodes : OneFlagPerAxis(n) =>
              /\ HasFlag(bcflag[n], BOUNDX0) =>
                    coord'[n][0] = RSub(coord[n][0], RMul(param.max_vbc_val, dt))
              /\ HasFlag(bcflag[n], BOUNDX1) =>
                    coord'[n][0] = RAdd(coord[n][0], RMul(param.max_vbc_val, dt))
              /\ HasFlag(bcflag[n], BOUNDZ1) =>
                    coord'[n][NDIMS - 1] = coord[n][NDIMS - 1]

C5_VelocityBCs ==
    /\ [] C5_StateInv
    /\ [][C5_Step]_vars

C5_Witness ==
    /\ pc = "compute_dt" /\ steps >= 2
    /\ param.max_vbc_val = R(1)
    /\ vel[0][0] = R(-1) /\ vel[1][0] = R(1) /\ vel[2][NDIMS - 1] = R(0)
    /\ RLt(coord[0][0], Coord0[0][0])

\* sum of term[x] over the finite set S
RECURSIVE RSumSet(_, _)
RSumSet(term, S) ==
    IF S = {} THEN R(0)
    ELSE LET x == CHOOSE y \in S : TRUE
         IN  RAdd(term[x], RSumSet(term, S \ {x}))

\* heat flow out of node n: the sum, over the elements e that have n as
\* their i-th node, of k * V_e * sum_j grad N_i . grad N_j * T_j
C6_Tdot(T, n) ==
    LET At == {ei \in Elems \X Locals : connectivity[ei[1]][ei[2]] = n}
        Flow == [ei \in At |->
                   LET e == ei[1]
                       i == ei[2]
                       G == [j \in Locals |->
                               RMul(RAdd(RMul(shpdx[e][i], shpdx[e][j]),
                                         RMul(shpdz[e][i], shpdz[e][j])),
                                    T[connectivity[e][j]])]
                   IN  RMul(RMul(R(MatK), volume[e]), RSumSet(G, Locals))]
    IN  RSumSet(Flow, At)

\* C6: the temperature update sets every BOUNDZ1 node to surface_temperature
\* and every other node to T_n - dt * tdot_n / tmass_n, tdot being computed
\* from the temperatures before the update; so after every completed step
\* the BOUNDZ1 nodes are at surface_temperature.
C6_Step ==
    pc = "update_temperature" =>
        \A n \in Nodes :
            temperature'[n] =
                IF HasFlag(bcflag[n], BOUNDZ1) THEN param.surface_temperature
                ELSE RSub(temperature[n],
                          RDiv(RMul(dt, C6_Tdot(temperature, n)), tmass[n]))

C6_StateInv ==
    (steps >= 1 /\ pc # "update_temperature") =>
        \A n \in Nodes :
            HasFlag(bcflag[n], BOUNDZ1) => temperature[n] = param.surface_temperature

C6_TemperatureUpdate ==
    /\ [] C6_StateInv
    /\ [][C6_Step]_vars

C6_Witness ==
    /\ pc = "update_strain_rate" /\ steps = 2
    /\ param.mantle_temperature # param.surface_temperature
    /\ temperature[2] = param.surface_temperature
    /\ IsFinite(temperature[4])
    /\ temperature[4] # param.mantle_temperature
    /\ tdot[4] # R(0)

\* x-distance between a BOUNDX0 node l and a BOUNDX1 node r
XDist(x, l, r) == RSub(x[r][0], x[l][0])

XPairs ==
    {lr \in Nodes \X Nodes :
        /\ HasFlag(bcflag[lr[1]], BOUNDX0) /\ ~HasFlag(bcflag[lr[1]], BOUNDX1)
        /\ HasFlag(bcflag[lr[2]], BOUNDX1) /\ ~HasFlag(bcflag[lr[2]], BOUNDX0)}

\* C7: between steps the x-distance of every BOUNDX0 / BOUNDX1 node pair
\* exceeds its initial value by exactly 2 * max_vbc_val * time, time being
\* the sum of the dt values of the steps made: each step adds its dt to
\* time and 2 * max_vbc_val * (that same dt) to the distance.
C7_StateInv ==
    (pc \in {"step_begin", "compute_dt", "rotate_stress", "output",
             "loop_check", "done"}) =>
        \A lr \in XPairs :
            XDist(coord, lr[1], lr[2]) =
                RAdd(XDist(Coord0, lr[1], lr[2]),
                     RMul(RMul(R(2), param.max_vbc_val), time))

C7_Step ==
    /\ pc = "step_begin" => time' = RAdd(time, dt)
    /\ pc # "step_begin" => time' = time
    /\ pc \notin {"init", "compute_dt"} => dt' = dt
    /\ pc = "update_mesh" =>
          \A lr \in XPairs :
              XDist(coord', lr[1], lr[2]) =
                  RAdd(XDist(coord, lr[1], lr[2]),
                       RMul(RMul(R(2), param.max_vbc_val), dt))

C8_RestInv ==
    (pc # "init" /\ param.max_vbc_val = R(0) /\ force = ZeroVec) =>
        /\ vel = ZeroVec
        /\ coord = Coord0

C8_Witness ==
    /\ pc = "done" /\ steps >= 3
    /\ param.max_vbc_val = R(0) /\ force = ZeroVec
    /\ vel = ZeroVec /\ coord = Coord0

\* C9: dt is set by init and afterwards changes only in the dt statement of
\* a step whose number is a multiple of 10; every step adds the current dt
\* to time, so steps 10k+1 .. 10k+10 advance time by the same dt.
C9_Step ==
    /\ dt' # dt => (pc = "init" \/ (pc = "compute_dt" /\ steps % 10 = 0))
    /\ pc = "init" => dt' \in DtValues
    /\ (pc = "compute_dt" /\ steps % 10 = 0) => dt' \in DtValues
    /\ pc = "step_begin" => time' = RAdd(time, dt) /\ steps' = steps + 1

\* up to the dt statement of step 10 every step made used the dt of init
C9_StateInv ==
    (pc # "init" /\ (steps < 10 \/ (steps = 10 /\ Stage \in 1 .. 8))) =>
        time = RMul(R(steps), dt)

C9_DtCadence ==
    /\ [] C9_StateInv
    /\ [][C9_Step]_vars

C9_Witness ==
    /\ pc = "update_temperature" /\ steps = 11
    /\ time # RMul(R(steps), dt)

\* C10 (as stated): the driver never starts a further step on a mesh in
\* which some element has a nonpositive signed volume.
C10_Original ==
    (pc = "step_begin" /\ steps >= 1) =>
        \A e \in Elems : RLt(R(0), SignedArea2(coord, e))


\* ------------------------------------------------------------------------
\* The parts of the program that are checked on their own leave main() at
\* rest
\* ------------------------------------------------------------------------
MainIdle ==
    /\ pc = "idle"
    /\ exit_code = -2
    /\ param = None
    /\ steps = 0 /\ time = R(0) /\ dt = R(0) /\ frame = 0
    /\ coord = ZeroVec /\ vel = ZeroVec /\ force = ZeroVec
    /\ temperature = ZeroNodes /\ tdot = ZeroNodes
    /\ volume = ZeroElems /\ volume_old = ZeroElems /\ volume_n = ZeroNodes
    /\ mass = ZeroNodes /\ tmass = ZeroNodes
    /\ shpdx = ZeroShp /\ shpdz = ZeroShp
    /\ strain_rate = ZeroStr
    /\ mat_rheol = "none"

\* ------------------------------------------------------------------------
\* remeshing.cxx: bad_mesh_quality
\* ------------------------------------------------------------------------

\* mesh.resolution of the configurations of the model
resolution == 2

\* const double dist_ratio = 0.25;
dist_ratio == <<1, 4>>

\* mesh.min_quality of the configurations of the model
min_quality == <<2, 5>>

\* the value a caller receives from a function declared bool
ToBool(v) == IF v # 0 THEN 1 ELSE 0

\* the first node of the bottom loop that is too far from the bottom depth,
\* p.nnode if there is none
RECURSIVE FarBottomNode(_, _, _)
FarBottomNode(p, m, i) ==
    IF i >= m.nnode THEN m.nnode
    ELSE IF /\ HasFlag(m.bcflag[i], BOUNDZ0)
            /\ RLt(RMul(dist_ratio, R(p.resolution)),
                   RAbs(RSub(m.coord[i][NDIMS - 1], RNeg(R(p.zlength)))))
         THEN i
         ELSE FarBottomNode(p, m, i + 1)

\* variant: the bottom is examined whether or not it is being restored
bad_mesh_quality_always(p, m, worst, index) ==
    LET far == FarBottomNode(p, m, 0)
    IN  IF far < m.nnode
        THEN [ret |-> ToBool(2), index |-> far]
        ELSE IF RLt(worst.q, p.min_quality)
        THEN [ret |-> ToBool(1), index |-> worst.worst_elem]
        ELSE [ret |-> ToBool(0), index |-> index]

\* bool bad_mesh_quality(param, var, index); worst is what
\* worst_elem_quality returned (the 2D build takes no cube root)
bad_mesh_quality(p, m, worst, index) ==
    LET far == IF p.restoring_bottom THEN FarBottomNode(p, m, 0) ELSE m.nnode
    IN  IF far < m.nnode
        THEN [ret |-> ToBool(2), index |-> far]
        ELSE IF RLt(worst.q, p.min_quality)
        THEN [ret |-> ToBool(1), index |-> worst.worst_elem]
        ELSE [ret |-> ToBool(0), index |-> index]

\* arguments of bad_mesh_quality: three nodes with their flags and depths
QNodes == 3
QFlagValues == {0, BOUNDZ0, BOUNDX0 + BOUNDZ0}
QDepthValues ==
    {RNeg(R(zlength)),
     RSub(RNeg(R(zlength)), RMul(<<1, 2>>, R(resolution))),
     RAdd(RNeg(R(zlength)), RMul(dist_ratio, R(resolution))),
     RAdd(RNeg(R(zlength)), R(resolution))}
QualityValues == {<<1, 5>>, min_quality, <<4, 5>>}

\* the value of the caller's index variable before the call
IndexBefore == -7

BadMeshCalls ==
    { [fn |-> "bad_mesh_quality",
       param |-> [restoring_bottom |-> rb, zlength |-> zlength,
                  resolution |-> resolution, min_quality |-> min_quality],
       var |-> [nnode |-> QNodes, bcflag |-> fl,
                coord |-> [i \in 0 .. (QNodes - 1) |->
                              [d \in Dims |-> IF d = 0 THEN R(i) ELSE zs[i]]]],
       worst |-> [q |-> wq, worst_elem |-> we],
       index |-> IndexBefore] :
        rb \in BOOLEAN,
        fl \in [0 .. (QNodes - 1) -> QFlagValues],
        zs \in [0 .. (QNodes - 1) -> QDepthValues],
        wq \in QualityValues,
        we \in {1} }

InitQuality ==
    /\ MainIdle
    /\ cfg = None
    /\ call \in BadMeshCalls
    /\ ret = None
    /\ rpc = "idle" /\ mesh = None /\ old_mesh = None /\ q = None
    /\ points_to_delete = <<>> /\ tri = None

BadMeshQuality ==
    /\ call # None /\ call.fn = "bad_mesh_quality"
    /\ ret = None
    /\ ret' = bad_mesh_quality(call.param, call.var, call.worst, call.index)
    /\ UNCHANGED <<pc, exit_code, param, clock, kinem, thermal, geom,
                   strain_rate, mat_rheol, cfg, call, remeshing>>

NextQuality == BadMeshQuality

SpecQuality == InitQuality /\ [][NextQuality]_vars

\* a bottom node of the call lies further than dist_ratio * resolution from
\* the bottom depth
BottomDisplaced(c) ==
    \E i \in 0 .. (c.var.nnode - 1) :
        /\ HasFlag(c.var.bcflag[i], BOUNDZ0)
        /\ RLt(RMul(dist_ratio, R(c.param.resolution)),
               RAbs(RSub(c.var.coord[i][NDIMS - 1], RNeg(R(c.param.zlength)))))

QualityReturned == call # None /\ call.fn = "bad_mesh_quality" /\ ret # None

\* C11: bad_mesh_quality reports a bad mesh exactly when bottom restoration
\* is on and some BOUNDZ0 node is further than 0.25 * resolution from
\* -zlength, or the worst element quality is below min_quality; otherwise
\* it returns false and leaves index as it was.
C11_BadMeshIff ==
    QualityReturned =>
        LET bad == \/ call.param.restoring_bottom /\ BottomDisplaced(call)
                   \/ RLt(call.worst.q, call.param.min_quality)
        IN  /\ (ret.ret # 0) <=> bad
            /\ ~bad => ret.ret = 0 /\ ret.index = call.index

\* restoration off, a displaced bottom node, good quality: not reported
C11_Witness ==
    /\ QualityReturned
    /\ ~call.param.restoring_bottom
    /\ BottomDisplaced(call)
    /\ ~RLt(call.worst.q, call.param.min_quality)
    /\ ret.ret = 0
    /\ ret.index = IndexBefore

\* a BOUNDZ0 node of the call at z = -zlength - 0.5 * resolution
HalfResolutionBelow(c, i) ==
    /\ HasFlag(c.var.bcflag[i], BOUNDZ0)
    /\ c.var.coord[i][NDIMS - 1] =
           RSub(RNeg(R(c.param.zlength)), RMul(<<1, 2>>, R(c.param.resolution)))

\* C12: with bottom restoration on and a BOUNDZ0 node at
\* z = -zlength - 0.5 * resolution, bad_mesh_quality returns the value 2 and
\* sets index to a node that is too far from the bottom.
C12_Original ==
    (/\ QualityReturned
     /\ call.param.restoring_bottom
     /\ \E i \in 0 .. (call.var.nnode - 1) : HalfResolutionBelow(call, i))
    => /\ ret.ret = 2
       /\ ret.index \in 0 .. (call.var.nnode - 1)
       /\ HasFlag(call.var.bcflag[ret.index], BOUNDZ0)


\* ------------------------------------------------------------------------
\* remeshing.cxx: remesh, new_mesh and the functions they call.  Arrays are
\* functions on 0 .. n-1; the element connectivity travels with coord in
\* every statement that moves arrays and is not carried separately.
\* ------------------------------------------------------------------------
DELETED_FACET == -1
NODES_PER_FACET == NDIMS

\* mesh.smallest_size of the configurations of the model
smallest_size == <<1, 4>>

Arr(seq) == [i \in 0 .. (Len(seq) - 1) |-> seq[i + 1]]
Idx(n) == [k \in 1 .. n |-> k - 1]
Empty == <<>>

\* flag & (b1 | b2 | ...)
AnyFlag(flag, bits) == \E b \in bits : HasFlag(flag, b)

\* a | b
RECURSIVE BitOr(_, _)
BitOr(a, b) ==
    IF a = 0 THEN b
    ELSE IF b = 0 THEN a
    ELSE (IF a % 2 = 1 \/ b % 2 = 1 THEN 1 ELSE 0) + 2 * BitOr(a \div 2, b \div 2)

\* std::pow(x, n) for a small natural n
RECURSIVE RPow(_, _)
RPow(x, n) == IF n = 0 THEN R(1) ELSE RMul(x, RPow(x, n - 1))

\* std::pow(x, 1./NDIMS) in the 2D build, for x a square of small rationals
RRoot(x) ==
    CHOOSE r \in {Norm(a, b) : a \in 0 .. 4, b \in 1 .. 4} : RPow(r, NDIMS) = x

\* variant: every bottom node is a corner
is_bottom_corner_anybottom(flag) ==
    IF ~HasFlag(flag, BOUNDZ0) THEN FALSE
    ELSE TRUE

\* 2D branch of is_bottom_corner
is_bottom_corner(flag) ==
    IF ~HasFlag(flag, BOUNDZ0) THEN FALSE
    ELSE IF HasFlag(flag, BOUNDX0) \/ HasFlag(flag, BOUNDX1) THEN TRUE
    ELSE FALSE

other_bdry == {BOUNDX0, BOUNDX1, BOUNDY0, BOUNDY1, BOUNDZ1}

\* first loop of new_bottom: the corner list
BottomCorners(old_bcflag) ==
    LET Test(i) == HasFlag(old_bcflag[i], BOUNDZ0) /\ is_bottom_corner(old_bcflag[i])
    IN  SelectSeq(Idx(Cardinality(DOMAIN old_bcflag)), Test)

\* first loop of new_bottom: the points to delete
BottomPointsToDelete(old_bcflag, qcoord, bottom_depth, min_dist) ==
    LET Test(i) ==
            IF HasFlag(old_bcflag[i], BOUNDZ0)
            THEN ~is_bottom_corner(old_bcflag[i])
            ELSE /\ ~AnyFlag(old_bcflag[i], other_bdry)
                 /\ RLt(RAbs(RSub(qcoord[i][NDIMS - 1], bottom_depth)), min_dist)
    IN  SelectSeq(Idx(Cardinality(DOMAIN old_bcflag)), Test)

\* last loop of new_bottom: for (i=0, nfacets=0, offset=0;
\* i<nseg, nfacets<(NDIMS-1); ++i); the comma leaves nfacets < NDIMS-1 as
\* the only test, so i can run past nseg (oob)
RECURSIVE FreshFacets(_, _, _, _, _, _, _)
FreshFacets(i, nfacets, offset, corners, segment, segflag, nseg) ==
    IF ~(nfacets < NDIMS - 1) THEN [oob |-> FALSE, segment |-> segment]
    ELSE IF i >= nseg THEN [oob |-> TRUE, segment |-> segment]
    ELSE IF segflag[i] = BOUNDZ0
    THEN FreshFacets(i + 1, nfacets + 1, offset + NDIMS - 1, corners,
                     [segment EXCEPT ![i] =
                         [j \in 0 .. (NODES_PER_FACET - 1) |-> corners[offset + j + 1]]],
                     segflag, nseg)
    ELSE FreshFacets(i + 1, nfacets, offset, corners, segment, segflag, nseg)

\* variant: the corners keep their depth
new_bottom_nosnap(old_bcflag, qq, bottom_depth, min_dist) ==
    LET bottom_corners == BottomCorners(old_bcflag)
        ptd == BottomPointsToDelete(old_bcflag, qq.coord, bottom_depth, min_dist)
        marked == [i \in DOMAIN qq.segment |->
                      IF i < qq.nseg /\ qq.segflag[i] = BOUNDZ0
                      THEN [j \in 0 .. (NODES_PER_FACET - 1) |-> DELETED_FACET]
                      ELSE qq.segment[i]]
    IN  IF Len(bottom_corners) # 2
        THEN [exit |-> TRUE, oob |-> FALSE, q |-> qq, points_to_delete |-> ptd]
        ELSE LET fresh == FreshFacets(0, 0, 0, bottom_corners \o <<bottom_corners[1]>>,
                                      marked, qq.segflag, qq.nseg)
             IN  [exit |-> FALSE, oob |-> fresh.oob,
                  q |-> [qq EXCEPT !.segment = fresh.segment],
                  points_to_delete |-> ptd]

\* new_bottom(old_bcflag, qcoord, bottom_depth, points_to_delete, min_dist,
\*            segment, segflag, nseg); exit: std::exit(1) was called
new_bottom(old_bcflag, qq, bottom_depth, min_dist) ==
    LET bottom_corners == BottomCorners(old_bcflag)
        ptd == BottomPointsToDelete(old_bcflag, qq.coord, bottom_depth, min_dist)
        snapped == [i \in DOMAIN qq.coord |->
                       IF \E k \in 1 .. Len(bottom_corners) : bottom_corners[k] = i
                       THEN [qq.coord[i] EXCEPT ![NDIMS - 1] = bottom_depth]
                       ELSE qq.coord[i]]
        marked == [i \in DOMAIN qq.segment |->
                      IF i < qq.nseg /\ qq.segflag[i] = BOUNDZ0
                      THEN [j \in 0 .. (NODES_PER_FACET - 1) |-> DELETED_FACET]
                      ELSE qq.segment[i]]
    IN  IF Len(bottom_corners) # 2
        THEN [exit |-> TRUE, oob |-> FALSE, q |-> qq, points_to_delete |-> ptd]
        ELSE LET fresh == FreshFacets(0, 0, 0, bottom_corners \o <<bottom_corners[1]>>,
                                      marked, qq.segflag, qq.nseg)
             IN  [exit |-> FALSE, oob |-> fresh.oob,
                  q |-> [qq EXCEPT !.coord = snapped, !.segment = fresh.segment],
                  points_to_delete |-> ptd]

\* std::replace(segment, endsegment, end, i)
ReplaceNode(segment, nseg, end, i) ==
    [s \in DOMAIN segment |->
        IF s < nseg
        THEN [j \in 0 .. (NODES_PER_FACET - 1) |->
                 IF segment[s][j] = end THEN i ELSE segment[s][j]]
        ELSE segment[s]]

\* the loop of delete_points, from the last entry of the list to the first
RECURSIVE DeletePointsLoop(_, _, _, _, _, _)
DeletePointsLoop(ptd, k, end, nseg, points, segment) ==
    IF k = 0 THEN [coord |-> points, segment |-> segment]
    ELSE DeletePointsLoop(ptd, k - 1, end - 1, nseg,
                          [points EXCEPT ![ptd[k]] = points[end]],
                          ReplaceNode(segment, nseg, end, ptd[k]))

\* variant: the segment entries of the moved points are not rewritten
delete_points_noreplace(ptd, qq) ==
    LET r == DeletePointsLoop(ptd, Len(ptd), qq.nnode - 1, 0, qq.coord, qq.segment)
    IN  [qq EXCEPT !.coord = r.coord, !.segment = r.segment,
                   !.nnode = qq.nnode - Len(ptd)]

\* delete_points(points_to_delete, npoints, nseg, points, segment)
delete_points(ptd, qq) ==
    LET r == DeletePointsLoop(ptd, Len(ptd), qq.nnode - 1, qq.nseg, qq.coord, qq.segment)
    IN  [qq EXCEPT !.coord = r.coord, !.segment = r.segment,
                   !.nnode = qq.nnode - Len(ptd)]

\* the loop of delete_facets, from the last segment to the first
RECURSIVE DeleteFacetsLoop(_, _, _, _)
DeleteFacetsLoop(i, nseg, segment, segflag) ==
    IF i < 0 THEN [exit |-> FALSE, nseg |-> nseg, segment |-> segment, segflag |-> segflag]
    ELSE IF segment[i][0] = DELETED_FACET
    THEN IF segment[i][1] # DELETED_FACET
         THEN [exit |-> TRUE, nseg |-> nseg, segment |-> segment, segflag |-> segflag]
         ELSE DeleteFacetsLoop(i - 1, nseg - 1,
                               [segment EXCEPT ![i] = segment[nseg - 1]],
                               [segflag EXCEPT ![i] = segflag[nseg - 1]])
    ELSE DeleteFacetsLoop(i - 1, nseg, segment, segflag)

\* variant: the flag of the last segment does not move with it
delete_facets_keepflag(qq) ==
    LET r == DeleteFacetsLoop(qq.nseg - 1, qq.nseg, qq.segment, qq.segflag)
    IN  [exit |-> r.exit,
         q |-> [qq EXCEPT !.nseg = r.nseg, !.segment = r.segment]]

\* delete_facets(nseg, segment, segflag); exit: std::exit(1) was called
delete_facets(qq) ==
    LET r == DeleteFacetsLoop(qq.nseg - 1, qq.nseg, qq.segment, qq.segflag)
    IN  [exit |-> r.exit,
         q |-> [qq EXCEPT !.nseg = r.nseg, !.segment = r.segment, !.segflag = r.segflag]]

\* smallest_vol of find_tiny_element
smallest_vol(p) == RMul(p.smallest_size, RPow(R(p.resolution), NDIMS))

\* find_tiny_element(param, volume, tiny_elems)
find_tiny_element(p, vol) ==
    LET Test(e) == RLt(vol[e], smallest_vol(p))
    IN  SelectSeq(Idx(Cardinality(DOMAIN vol)), Test)

\* find_points_of_tiny_elem: inside[e] are the old points for which
\* bary.is_inside_elem(p, e) holds
find_points_of_tiny_elem(tiny_elems, npoints, inside, old_bcflag) ==
    LET Test(i) ==
            /\ ~AnyFlag(old_bcflag[i],
                        {BOUNDX0, BOUNDX1, BOUNDY0, BOUNDY1, BOUNDZ0, BOUNDZ1})
            /\ \E k \in 1 .. Len(tiny_elems) : i \in inside[tiny_elems[k]]
    IN  SelectSeq(Idx(npoints), Test)

\* volumes an element of the new mesh can have: below and above smallest_vol
TinyVol == <<1, 2>>
FineVol == R(3)

\* number of elements of a new mesh
NewElems == 2

\* points_to_new_mesh followed by compute_volume: the library keeps the
\* points and the segments it is given; element 0 may come out tiny, and
\* then at most one of the given points lies inside it
points_to_new_mesh(qq) ==
    { [nnode |-> qq.nnode, nelem |-> NewElems, nseg |-> qq.nseg,
       coord |-> [i \in 0 .. (qq.nnode - 1) |-> qq.coord[i]],
       segment |-> [i \in 0 .. (qq.nseg - 1) |-> qq.segment[i]],
       segflag |-> [i \in 0 .. (qq.nseg - 1) |-> qq.segflag[i]],
       volume |-> [e \in 0 .. (NewElems - 1) |-> IF e = 0 THEN o[1] ELSE FineVol],
       inside |-> [e \in 0 .. (NewElems - 1) |-> IF e = 0 THEN o[2] ELSE {}]] :
        o \in {<<FineVol, {}>>, <<TinyVol, {}>>}
               \cup {<<TinyVol, {i}>> : i \in 0 .. (qq.nnode - 1)} }

\* create_boundary_flags: every segment gives its flag to each of its nodes
RECURSIVE OrSegflags(_, _, _, _)
OrSegflags(n, i, segment, segflag) ==
    IF i < 0 THEN 0
    ELSE BitOr(OrSegflags(n, i - 1, segment, segflag),
               IF \E j \in 0 .. (NODES_PER_FACET - 1) : segment[i][j] = n
               THEN segflag[i] ELSE 0)

create_boundary_flags(m) ==
    [n \in 0 .. (m.nnode - 1) |-> OrSegflags(n, m.nseg - 1, m.segment, m.segflag)]


\* Array2D::steal_ref: the receiver takes the array, the giver is left empty
steal_ref(other) == [taken |-> other, left |-> Empty]

\* ------------------------------------------------------------------------
\* The meshes remesh() is called on: a box with corners BL, BR, TR, TL, a
\* node BM on the bottom and an interior node IN, in several numberings
\* ------------------------------------------------------------------------
Kinds == <<"BL", "BM", "BR", "TR", "TL", "IN">>

BoxSegments ==
    << <<"BL", "BM", BOUNDZ0>>, <<"BM", "BR", BOUNDZ0>>, <<"BR", "TR", BOUNDX1>>,
       <<"TR", "TL", BOUNDZ1>>, <<"TL", "BL", BOUNDX0>> >>

Rot(seq, r) == [k \in 1 .. Len(seq) |-> seq[((k - 1 + r) % Len(seq)) + 1]]
Rev(seq) == [k \in 1 .. Len(seq) |-> seq[Len(seq) + 1 - k]]

NodeOrders == {Rot(Kinds, r) : r \in 0 .. 5} \cup {Rot(Rev(Kinds), r) : r \in 0 .. 5}
SegmentOrders == {Rot(BoxSegments, r) : r \in 0 .. 4}

\* var.bcflag as create_boundary_flags leaves it ("none"), with the side bit
\* of a corner missing ("lost") or a side bit on the bottom node ("extra")
FlagFaults == {"none", "lost", "extra"}

KindFlag(k, fault) ==
    CASE k = "BL" -> IF fault = "lost" THEN BOUNDZ0 ELSE BOUNDX0 + BOUNDZ0
      [] k = "BM" -> IF fault = "extra" THEN BOUNDX0 + BOUNDZ0 ELSE BOUNDZ0
      [] k = "BR" -> BOUNDX1 + BOUNDZ0
      [] k = "TR" -> BOUNDX1 + BOUNDZ1
      [] k = "TL" -> BOUNDX0 + BOUNDZ1
      [] k = "IN" -> 0

\* dBL, dBM: how far the free bottom has moved at BL and BM; near: IN lies
\* closer than min_dist to the bottom depth
KindCoord(k, dBL, dBM, near) ==
    CASE k = "BL" -> <<R(0), RAdd(RNeg(R(zlength)), dBL)>>
      [] k = "BM" -> <<R(3), RAdd(RNeg(R(zlength)), dBM)>>
      [] k = "BR" -> <<R(xlength), RNeg(R(zlength))>>
      [] k = "TR" -> <<R(xlength), R(0)>>
      [] k = "TL" -> <<R(0), R(0)>>
      [] k = "IN" -> <<R(2), IF near THEN RAdd(RNeg(R(zlength)), <<1, 2>>)
                             ELSE R(-2)>>

NodeOf(ord, k) == (CHOOSE i \in 1 .. Len(ord) : ord[i] = k) - 1

OldElems == 5

BoxMesh(ord, segs, dBL, dBM, near, fault) ==
    [nnode |-> Len(ord), nelem |-> OldElems, nseg |-> Len(segs),
     coord |-> [i \in 0 .. (Len(ord) - 1) |->
                   Arr(KindCoord(ord[i + 1], dBL, dBM, near))],
     segment |-> [i \in 0 .. (Len(segs) - 1) |->
                     [j \in 0 .. (NODES_PER_FACET - 1) |-> NodeOf(ord, segs[i + 1][j + 1])]],
     segflag |-> [i \in 0 .. (Len(segs) - 1) |-> segs[i + 1][3]],
     bcflag |-> [i \in 0 .. (Len(ord) - 1) |-> KindFlag(ord[i + 1], fault)],
     volume |-> [e \in 0 .. (OldElems - 1) |-> FineVol]]

BottomShifts == {R(0), R(-1)}

RemeshParams ==
    { [restoring_bottom |-> rb, zlength |-> zlength, resolution |-> resolution,
       smallest_size |-> smallest_size, min_quality |-> min_quality] :
        rb \in BOOLEAN }

InitRemesh ==
    /\ pc = "idle"
    /\ exit_code = -2
    /\ param \in RemeshParams
    /\ steps = 0 /\ time = R(0) /\ dt = R(0) /\ frame = 0
    /\ coord = ZeroVec /\ vel = ZeroVec /\ force = ZeroVec
    /\ temperature = ZeroNodes /\ tdot = ZeroNodes
    /\ volume = ZeroElems /\ volume_old = ZeroElems /\ volume_n = ZeroNodes
    /\ mass = ZeroNodes /\ tmass = ZeroNodes
    /\ shpdx = ZeroShp /\ shpdz = ZeroShp
    /\ strain_rate = ZeroStr
    /\ mat_rheol = "none"
    /\ cfg = None /\ call = None /\ ret = None
    /\ rpc = "remesh"
    /\ \E ord \in NodeOrders : \E segs \in SegmentOrders :
       \E dBL \in BottomShifts : \E dBM \in BottomShifts :
       \E near \in BOOLEAN : \E fault \in FlagFaults :
          mesh = BoxMesh(ord, segs, dBL, dBM, near, fault)
    /\ old_mesh = None /\ q = None
    /\ points_to_delete = <<>> /\ tri = None

mainvars == <<pc, clock, kinem, thermal, geom, strain_rate, mat_rheol>>

\* variant: the old arrays are copied, var keeps them
RemeshSteal_copy ==
    /\ rpc = "remesh"
    /\ old_mesh' = [coord |-> mesh.coord, segment |-> mesh.segment,
                    segflag |-> mesh.segflag]
    /\ rpc' = "new_mesh"
    /\ UNCHANGED <<mainvars, exit_code, param, cfg, call, ret, mesh, q,
                   points_to_delete, tri>>

\* remesh: the old arrays are moved into old_coord, old_segment, old_segflag
RemeshSteal ==
    /\ rpc = "remesh"
    /\ old_mesh' = [coord |-> steal_ref(mesh.coord).taken,
                    segment |-> steal_ref(mesh.segment).taken,
                    segflag |-> steal_ref(mesh.segflag).taken]
    /\ mesh' = [mesh EXCEPT !.coord = steal_ref(mesh.coord).left,
                            !.segment = steal_ref(mesh.segment).left,
                            !.segflag = steal_ref(mesh.segflag).left]
    /\ rpc' = "new_mesh"
    /\ UNCHANGED <<mainvars, exit_code, param, cfg, call, ret, q, points_to_delete, tri>>

\* new_mesh: qcoord, qsegment, qsegflag are copies of the old arrays
NewMeshCopy ==
    /\ rpc = "new_mesh"
    /\ q' = [coord |-> old_mesh.coord, segment |-> old_mesh.segment,
             segflag |-> old_mesh.segflag,
             nnode |-> Cardinality(DOMAIN old_mesh.coord),
             nseg |-> Cardinality(DOMAIN old_mesh.segment)]
    /\ rpc' = IF param.restoring_bottom THEN "new_bottom" ELSE "points_to_new_mesh"
    /\ UNCHANGED <<mainvars, exit_code, param, cfg, call, ret, mesh, old_mesh,
                   points_to_delete, tri>>

min_dist(p) == RMul(RRoot(p.smallest_size), R(p.resolution))

NewBottom ==
    /\ rpc = "new_bottom"
    /\ LET r == new_bottom(mesh.bcflag, q, RNeg(R(param.zlength)), min_dist(param))
       IN  /\ q' = r.q
           /\ points_to_delete' = r.points_to_delete
           /\ rpc' = IF r.exit THEN "exit"
                     ELSE IF r.oob THEN "undefined" ELSE "delete_points"
           /\ exit_code' = IF r.exit THEN 1 ELSE exit_code
    /\ UNCHANGED <<mainvars, param, cfg, call, ret, mesh, old_mesh, tri>>

DeletePoints ==
    /\ rpc = "delete_points"
    /\ q' = delete_points(points_to_delete, q)
    /\ rpc' = "delete_facets"
    /\ UNCHANGED <<mainvars, exit_code, param, cfg, call, ret, mesh, old_mesh,
                   points_to_delete, tri>>

DeleteFacets ==
    /\ rpc = "delete_facets"
    /\ LET r == delete_facets(q)
       IN  /\ q' = r.q
           /\ rpc' = IF r.exit THEN "exit" ELSE "points_to_new_mesh"
           /\ exit_code' = IF r.exit THEN 1 ELSE exit_code
    /\ points_to_delete' = <<>>
    /\ UNCHANGED <<mainvars, param, cfg, call, ret, mesh, old_mesh, tri>>

\* points_to_new_mesh, compute_volume
Triangulate ==
    /\ rpc = "points_to_new_mesh"
    /\ tri' \in points_to_new_mesh(q)
    /\ rpc' = "find_tiny_element"
    /\ UNCHANGED <<mainvars, exit_code, param, cfg, call, ret, mesh, old_mesh, q,
                   points_to_delete>>

\* find_tiny_element, find_points_of_tiny_elem
FindTiny ==
    /\ rpc = "find_tiny_element"
    /\ LET tiny_elems == find_tiny_element(param, tri.volume)
       IN  points_to_delete' =
               IF Len(tiny_elems) > 0
               THEN find_points_of_tiny_elem(tiny_elems, q.nnode, tri.inside, mesh.bcflag)
               ELSE <<>>
    /\ rpc' = IF Len(points_to_delete') > 0 THEN "retry" ELSE "install"
    /\ UNCHANGED <<mainvars, exit_code, param, cfg, call, ret, mesh, old_mesh, q, tri>>

\* if (points_to_delete.size() > 0): delete_points and a second
\* points_to_new_mesh
Retry ==
    /\ rpc = "retry"
    /\ q' = delete_points(points_to_delete, q)
    /\ tri' \in points_to_new_mesh(q')
    /\ rpc' = "install"
    /\ UNCHANGED <<mainvars, exit_code, param, cfg, call, ret, mesh, old_mesh,
                   points_to_delete>>

\* the end of new_mesh: var takes the new arrays, the q arrays are deleted
Install ==
    /\ rpc = "install"
    /\ mesh' = [mesh EXCEPT !.nnode = tri.nnode, !.nelem = tri.nelem,
                            !.nseg = tri.nseg, !.coord = tri.coord,
                            !.segment = tri.segment, !.segflag = tri.segflag]
    /\ q' = None
    /\ points_to_delete' = <<>>
    /\ rpc' = "interpolate"
    /\ UNCHANGED <<mainvars, exit_code, param, cfg, call, ret, old_mesh, tri>>

\* nearest_neighbor_interpolation, barycentric_node_interpolation (the
\* fields are not modelled); the block ends and old_coord, ... are destroyed
Interpolate ==
    /\ rpc = "interpolate"
    /\ old_mesh' = None
    /\ rpc' = "create_boundary_flags"
    /\ UNCHANGED <<mainvars, exit_code, param, cfg, call, ret, mesh, q,
                   points_to_delete, tri>>

\* variant: the boundary flags of the old mesh are kept
Rebuild_oldflags ==
    /\ rpc = "create_boundary_flags"
    /\ mesh' = [mesh EXCEPT !.volume = tri.volume]
    /\ rpc' = "done"
    /\ UNCHANGED <<mainvars, exit_code, param, cfg, call, ret, old_mesh, q,
                   points_to_delete, tri>>

\* delete var.bcflag; create_boundary_flags(var); ... compute_volume(...)
Rebuild ==
    /\ rpc = "create_boundary_flags"
    /\ mesh' = [mesh EXCEPT !.bcflag = create_boundary_flags(mesh),
                            !.volume = tri.volume]
    /\ rpc' = "done"
    /\ UNCHANGED <<mainvars, exit_code, param, cfg, call, ret, old_mesh, q,
                   points_to_delete, tri>>

NextRemesh ==
    \/ RemeshSteal
    \/ NewMeshCopy
    \/ NewBottom
    \/ DeletePoints
    \/ DeleteFacets
    \/ Triangulate
    \/ FindTiny
    \/ Retry
    \/ Install
    \/ Interpolate
    \/ Rebuild

SpecRemesh == InitRemesh /\ [][NextRemesh]_vars


\* the bottom facets of the q arrays
BottomFacets(qq) == {i \in 0 .. (qq.nseg - 1) : qq.segflag[i] = BOUNDZ0}

\* the points of the q arrays
QPoints(qq) == {qq.coord[i] : i \in 0 .. (qq.nnode - 1)}

\* old nodes, by the flags and coordinates of the mesh remesh() was called on
OldBottomNodes == {n \in DOMAIN mesh.bcflag : HasFlag(mesh.bcflag[n], BOUNDZ0)}
OldCorners == {n \in OldBottomNodes : is_bottom_corner(mesh.bcflag[n])}

\* an old node moved to the bottom depth
AtBottom(n) == [old_mesh.coord[n] EXCEPT ![NDIMS - 1] = RNeg(R(param.zlength))]

\* what new_bottom, delete_points and delete_facets promise about the q
\* arrays
RestoredBottom(qq) ==
    /\ \A i \in BottomFacets(qq) : \A j \in 0 .. (NODES_PER_FACET - 1) :
          /\ qq.segment[i][j] \in 0 .. (qq.nnode - 1)
          /\ qq.coord[qq.segment[i][j]][NDIMS - 1] = RNeg(R(param.zlength))
    /\ \A n \in OldBottomNodes \ OldCorners : old_mesh.coord[n] \notin QPoints(qq)
    /\ Cardinality(BottomFacets(qq)) = NDIMS - 1
    /\ \A i \in BottomFacets(qq) :
          {qq.coord[qq.segment[i][j]] : j \in 0 .. (NODES_PER_FACET - 1)}
              = {AtBottom(n) : n \in OldCorners}

\* C13: with bottom restoration on, the points and segments handed to the
\* triangulator (first call and retry) satisfy: every node of a BOUNDZ0
\* facet lies at z = -zlength, no old BOUNDZ0 node other than the bottom
\* corners survives, and there are exactly NDIMS-1 BOUNDZ0 facets, built
\* from the corners.
C13_Original ==
    (/\ param # None /\ param.restoring_bottom
     /\ rpc \in {"points_to_new_mesh", "install"})
        => RestoredBottom(q)

\* C14: whenever remesh returns normally the new mesh has at least one
\* element and no element with volume below smallest_vol.
C14_Original ==
    rpc = "done" =>
        /\ mesh.nelem >= 1
        /\ \A e \in 0 .. (mesh.nelem - 1) : ~RLt(mesh.volume[e], smallest_vol(param))

\* the arrays of var are the ones remesh() has put into old_coord, ...
HoldsOldArrays ==
    /\ mesh.coord = old_mesh.coord
    /\ mesh.segment = old_mesh.segment
    /\ mesh.segflag = old_mesh.segflag

VarArraysEmpty ==
    mesh.coord = Empty /\ mesh.segment = Empty /\ mesh.segflag = Empty

C15_Step ==
    /\ rpc = "remesh" =>
          /\ old_mesh' = [coord |-> mesh.coord, segment |-> mesh.segment,
                          segflag |-> mesh.segflag]
          /\ VarArraysEmpty'
    /\ (old_mesh # None /\ old_mesh' # old_mesh) =>
          /\ old_mesh' = None
          /\ rpc = "interpolate"
          /\ mesh.coord = tri.coord /\ mesh.segment = tri.segment
          /\ mesh.segflag = tri.segflag
    /\ rpc' = "exit" =>
          /\ old_mesh' = old_mesh /\ old_mesh # None
          /\ VarArraysEmpty'
          /\ exit_code' = 1

SegmentsAt(n) ==
    {i \in 0 .. (mesh.nseg - 1) :
        \E j \in 0 .. (NODES_PER_FACET - 1) : mesh.segment[i][j] = n}

BoundaryBits == {BOUNDX0, BOUNDX1, BOUNDY0, BOUNDY1, BOUNDZ0, BOUNDZ1}

\* C16: after remesh the boundary flag of every node of the new mesh is the
\* bitwise OR of the segflags of the new segments at that node, and 0 for a
\* node on no segment.
C16_FlagsFromSegments ==
    rpc = "done" =>
        /\ DOMAIN mesh.bcflag = 0 .. (mesh.nnode - 1)
        /\ \A n \in 0 .. (mesh.nnode - 1) :
              /\ mesh.bcflag[n] \in 0 .. 63
              /\ \A b \in BoundaryBits :
                    HasFlag(mesh.bcflag[n], b)
                        <=> \E i \in SegmentsAt(n) : HasFlag(mesh.segflag[i], b)
              /\ SegmentsAt(n) = {} => mesh.bcflag[n] = 0

\* a new mesh with fewer nodes than the old one, an interior node and a
\* bottom corner
C16_Witness ==
    /\ rpc = "done"
    /\ mesh.nnode = 5
    /\ \E n \in 0 .. (mesh.nnode - 1) : SegmentsAt(n) = {} /\ mesh.bcflag[n] = 0
    /\ \E n \in 0 .. (mesh.nnode - 1) : mesh.bcflag[n] = BOUNDX0 + BOUNDZ0


\* ------------------------------------------------------------------------
\* input.cxx: read_numbers.  A string is a sequence of characters; the
\* std::istringstream is its text, the read position and the two state bits
\* the function depends on.
\* ------------------------------------------------------------------------
Digits == {"1", "2"}
Chars == {"[", "]", ",", " "} \cup Digits

DigitVal(c) == IF c = "1" THEN 1 ELSE 2

\* the value of a run of digits
RECURSIVE DecimalVal(_)
DecimalVal(run) ==
    IF run = <<>> THEN 0
    ELSE 10 * DecimalVal(SubSeq(run, 1, Len(run) - 1)) + DigitVal(run[Len(run)])

\* std::istringstream stream(input)
OpenStream(input) == [text |-> input, pos |-> 1, fail |-> FALSE, eof |-> FALSE]

\* stream.good()
Good(st) == ~st.fail /\ ~st.eof

\* the position of the first character at or after i that is not a blank,
\* Len + 1 if there is none
RECURSIVE SkipBlanks(_, _)
SkipBlanks(text, i) ==
    IF i > Len(text) THEN i
    ELSE IF text[i] = " " THEN SkipBlanks(text, i + 1) ELSE i

\* the position after the run of digits that starts at i
RECURSIVE SkipDigits(_, _)
SkipDigits(text, i) ==
    IF i > Len(text) THEN i
    ELSE IF text[i] \in Digits THEN SkipDigits(text, i + 1) ELSE i

\* stream >> c for a char c holding cur: a failed extraction leaves c alone
ReadChar(st, cur) ==
    IF ~Good(st) THEN [st |-> [st EXCEPT !.fail = TRUE], val |-> cur]
    ELSE LET i == SkipBlanks(st.text, st.pos)
         IN  IF i > Len(st.text)
             THEN [st |-> [st EXCEPT !.pos = i, !.fail = TRUE, !.eof = TRUE], val |-> cur]
             ELSE [st |-> [st EXCEPT !.pos = i + 1], val |-> st.text[i]]

\* stream >> d for a double d holding cur: no digits sets failbit and stores
\* 0, a number that ends the text sets eofbit
ReadDouble(st, cur) ==
    IF ~Good(st) THEN [st |-> [st EXCEPT !.fail = TRUE], val |-> cur]
    ELSE LET i == SkipBlanks(st.text, st.pos)
             j == SkipDigits(st.text, i)
         IN  IF i > Len(st.text)
             THEN [st |-> [st EXCEPT !.pos = i, !.fail = TRUE, !.eof = TRUE], val |-> cur]
             ELSE IF j = i
             THEN [st |-> [st EXCEPT !.pos = i, !.fail = TRUE], val |-> 0]
             ELSE [st |-> [st EXCEPT !.pos = j, !.eof = (j > Len(st.text))],
                   val |-> DecimalVal(SubSeq(st.text, i, j - 1))]

\* the loop of read_numbers, from number i on; garbage is the content of the
\* uninitialized char sep
RECURSIVE ReadNumbersLoop(_, _, _, _, _)
ReadNumbersLoop(st, vec, i, len, garbage) ==
    IF ~(i < len) THEN [err |-> 0, st |-> st, vec |-> vec]
    ELSE LET d == ReadDouble(st, vec[i])
             v == [vec EXCEPT ![i] = d.val]
         IN  IF i = len - 1 THEN [err |-> 0, st |-> d.st, vec |-> v]
             ELSE LET sep == ReadChar(d.st, garbage)
                  IN  IF sep.val # "," THEN [err |-> 1, st |-> sep.st, vec |-> v]
                      ELSE ReadNumbersLoop(sep.st, v, i + 1, len, garbage)

\* variant: the closing bracket is not required
read_numbers_nobracket(input, len, garbage) ==
    LET zero == [i \in 0 .. (len - 1) |-> 0]
        open == ReadChar(OpenStream(input), garbage)
    IN  IF open.val # "[" THEN [err |-> 1, vec |-> zero]
        ELSE LET body == ReadNumbersLoop(open.st, zero, 0, len, garbage)
             IN  IF body.err # 0 THEN [err |-> 1, vec |-> body.vec]
                 ELSE [err |-> 0, vec |-> body.vec]

\* static int read_numbers(const std::string &input, double_vec &vec, int len)
read_numbers(input, len, garbage) ==
    LET zero == [i \in 0 .. (len - 1) |-> 0]
        open == ReadChar(OpenStream(input), garbage)
    IN  IF open.val # "[" THEN [err |-> 1, vec |-> zero]
        ELSE LET body == ReadNumbersLoop(open.st, zero, 0, len, garbage)
             IN  IF body.err # 0 THEN [err |-> 1, vec |-> body.vec]
                 ELSE LET s1 == ReadChar(body.st, open.val)
                          s2 == IF s1.val = "," THEN ReadChar(s1.st, s1.val) ELSE s1
                      IN  IF s2.val # "]" THEN [err |-> 1, vec |-> body.vec]
                          ELSE IF ~Good(s2.st) THEN [err |-> 1, vec |-> body.vec]
                          ELSE [err |-> 0, vec |-> body.vec]

\* the strings and lengths read_numbers is called with
MaxInputLen == 5
NumMaterialValues == {1, 2}

RECURSIVE StringsOfLen(_)
StringsOfLen(n) ==
    IF n = 0 THEN {<<>>}
    ELSE {Append(t, c) : t \in StringsOfLen(n - 1), c \in Chars}

InputStrings == UNION {StringsOfLen(n) : n \in 0 .. MaxInputLen}

InitNumbers ==
    /\ MainIdle
    /\ cfg = None
    /\ \E input \in InputStrings : \E len \in NumMaterialValues :
          call = [fn |-> "read_numbers", input |-> input, len |-> len]
    /\ ret = None
    /\ rpc = "idle" /\ mesh = None /\ old_mesh = None /\ q = None
    /\ points_to_delete = <<>> /\ tri = None

ReadNumbers ==
    /\ call # None /\ call.fn = "read_numbers"
    /\ ret = None
    /\ \E garbage \in Chars : ret' = read_numbers(call.input, call.len, garbage)
    /\ UNCHANGED <<pc, exit_code, param, clock, kinem, thermal, geom,
                   strain_rate, mat_rheol, cfg, call, remeshing>>

NextNumbers == ReadNumbers

SpecNumbers == InitNumbers /\ [][NextNumbers]_vars

\* the tokens of a string: runs of digits and single other characters,
\* blanks dropped
RECURSIVE Tokens(_, _)
Tokens(text, i) ==
    IF i > Len(text) THEN <<>>
    ELSE IF text[i] = " " THEN Tokens(text, i + 1)
    ELSE IF text[i] \in Digits
    THEN <<SubSeq(text, i, SkipDigits(text, i) - 1)>> \o Tokens(text, SkipDigits(text, i))
    ELSE <<(<<text[i]>>)>> \o Tokens(text, i + 1)

IsNumber(tok) == tok # <<>> /\ \A k \in 1 .. Len(tok) : tok[k] \in Digits

\* '[v0, v1, ...]' with exactly len numbers, optionally one comma before the
\* closing bracket, and nothing else
BracketedList(text, len) ==
    LET t == Tokens(text, 1)
        n == Len(t)
    IN  /\ n \in {2 * len + 1, 2 * len + 2}
        /\ t[1] = <<"[">>
        /\ \A k \in 1 .. len : IsNumber(t[2 * k])
        /\ \A k \in 1 .. (len - 1) : t[2 * k + 1] = <<",">>
        /\ t[n] = <<"]">>
        /\ n = 2 * len + 2 => t[n - 1] = <<",">>

NumbersReturned == call # None /\ call.fn = "read_numbers" /\ ret # None

\* C20: a material array value is accepted exactly when it is a bracketed
\* list of exactly mat.num_material numbers separated by commas, optionally
\* with one trailing comma, and nothing else; on acceptance the vector holds
\* the numbers in order.
C20_Original ==
    NumbersReturned =>
        /\ (ret.err = 0) <=> BracketedList(call.input, call.len)
        /\ ret.err = 0 =>
              \A k \in 1 .. call.len :
                  ret.vec[k - 1] = DecimalVal(Tokens(call.input, 1)[2 * k])


\* ------------------------------------------------------------------------
\* input.cxx: get_input_parameters.  The configuration file is the set of
\* keys it gives and their values.
\* ------------------------------------------------------------------------

\* the options declared ->required()
RequiredKeys ==
    {"mesh.xlength", "mesh.ylength", "mesh.zlength", "mesh.resolution",
     "mat.rheology_type"}

\* the material arrays, in the order validate_parameters reads them
MatArrayKeys ==
    <<"mat.rho0", "mat.alpha", "mat.bulk_modulus", "mat.shear_modulus",
      "mat.visc_exponent", "mat.visc_coefficient", "mat.visc_activation_energy",
      "mat.heat_capacity", "mat.therm_cond", "mat.pls0", "mat.pls1",
      "mat.cohesion0", "mat.cohesion1", "mat.friction_angle0",
      "mat.friction_angle1", "mat.dilation_angle0", "mat.dilation_angle1">>

MatArrayKeySet == {MatArrayKeys[k] : k \in 1 .. Len(MatArrayKeys)}

SimKeys ==
    {"sim.max_steps", "sim.max_time_in_yr", "sim.output_step_interval",
     "sim.output_time_interval_in_yr"}

\* vm.count(name)
Count(c, name) == name \in c.keys

\* std::numeric_limits<double>::max() * YEAR2SEC in double arithmetic
DBL_MAX_SEC == <<1, 0>>

\* get_numbers(vm, name, values, len) calls std::exit(1)
get_numbers_exits(c, name, garbage) ==
    \/ ~Count(c, name)
    \/ read_numbers(c.mat[name], c.num_material, garbage).err # 0

\* what validate_parameters leaves in Param when it returns
ValidatedParam(c) ==
    [max_steps |-> IF Count(c, "sim.max_steps") THEN c.max_steps ELSE INT_MAX,
     max_time |-> IF Count(c, "sim.max_time_in_yr") THEN c.max_time ELSE DBL_MAX_SEC,
     output_step_interval |->
         IF Count(c, "sim.output_step_interval") THEN c.output_step_interval
         ELSE INT_MAX,
     output_time_interval |->
         IF Count(c, "sim.output_time_interval_in_yr") THEN c.output_time_interval
         ELSE DBL_MAX_SEC,
     max_vbc_val |-> c.max_vbc_val,
     surface_temperature |-> c.surface_temperature,
     mantle_temperature |-> c.mantle_temperature,
     rheol_type |-> rheol_type_of(c.rheology_type)]

\* variant: the rheology name is not checked
validate_parameters_anyname(c) ==
    IF ~(Count(c, "sim.max_steps") \/ Count(c, "sim.max_time_in_yr"))
    THEN [exit |-> TRUE, param |-> None]
    ELSE IF ~(Count(c, "sim.output_step_interval")
                 \/ Count(c, "sim.output_time_interval_in_yr"))
    THEN [exit |-> TRUE, param |-> None]
    ELSE [exit |-> FALSE, param |-> ValidatedParam(c)]

\* static void validate_parameters(vm, p) up to the material arrays; exit:
\* std::exit(1) was called
validate_parameters(c) ==
    IF ~(Count(c, "sim.max_steps") \/ Count(c, "sim.max_time_in_yr"))
    THEN [exit |-> TRUE, param |-> None]
    ELSE IF ~(Count(c, "sim.output_step_interval")
                 \/ Count(c, "sim.output_time_interval_in_yr"))
    THEN [exit |-> TRUE, param |-> None]
    ELSE IF c.rheology_type \notin RheologyNames
    THEN [exit |-> TRUE, param |-> None]
    ELSE [exit |-> FALSE, param |-> ValidatedParam(c)]

\* the configuration files of the model: at most one required key is left
\* out, any of the four sim keys may be left out, the rheology name may be
\* unknown, one material array may be left out or cut short
GoodArray == <<"[", "1", "]">>
CutArray == <<"[", "1">>

KeyChoices ==
    { req \cup sim \cup mat :
        req \in {RequiredKeys} \cup {RequiredKeys \ {k} : k \in RequiredKeys},
        sim \in SUBSET SimKeys,
        mat \in {MatArrayKeySet, MatArrayKeySet \ {"mat.rho0"}} }

Cfgs ==
    { [keys |-> ks,
       max_steps |-> ms, max_time |-> mt,
       output_step_interval |-> os, output_time_interval |-> ot,
       max_vbc_val |-> R(0),
       surface_temperature |-> R(1), mantle_temperature |-> R(1),
       rheology_type |-> rh,
       num_material |-> 1,
       mat |-> [k \in MatArrayKeySet |->
                   IF k = "mat.dilation_angle1" THEN last ELSE GoodArray]] :
        ks \in KeyChoices,
        ms \in {MaxSteps}, mt \in {R(1000)},
        os \in {2}, ot \in OutputTimeValues,
        rh \in RheologyNames \cup {"elasto-visco-plastic"},
        last \in {GoodArray, CutArray} }

InitCfg ==
    /\ pc = "read_parameters_from_file"
    /\ exit_code = -2
    /\ param = None
    /\ steps = 0 /\ time = R(0) /\ dt = R(0) /\ frame = 0
    /\ coord = ZeroVec /\ vel = ZeroVec /\ force = ZeroVec
    /\ temperature = ZeroNodes /\ tdot = ZeroNodes
    /\ volume = ZeroElems /\ volume_old = ZeroElems /\ volume_n = ZeroNodes
    /\ mass = ZeroNodes /\ tmass = ZeroNodes
    /\ shpdx = ZeroShp /\ shpdz = ZeroShp
    /\ strain_rate = ZeroStr
    /\ mat_rheol = "none"
    /\ cfg \in Cfgs
    /\ call = None /\ ret = None
    /\ rpc = "idle" /\ mesh = None /\ old_mesh = None /\ q = None
    /\ points_to_delete = <<>> /\ tri = None

\* po::store, po::notify: a missing required option throws, the handler
\* calls std::exit(1)
ReadParametersFromFile ==
    /\ pc = "read_parameters_from_file"
    /\ IF RequiredKeys \subseteq cfg.keys
       THEN pc' = "validate_parameters" /\ exit_code' = exit_code
       ELSE pc' = "exit" /\ exit_code' = 1
    /\ UNCHANGED <<param, clock, kinem, thermal, geom, strain_rate, mat_rheol, aux>>

ValidateParameters ==
    /\ pc = "validate_parameters"
    /\ LET r == validate_parameters(cfg)
       IN  IF r.exit
           THEN pc' = "exit" /\ exit_code' = 1 /\ param' = param
           ELSE pc' = "get_numbers" /\ exit_code' = exit_code /\ param' = r.param
    /\ UNCHANGED <<clock, kinem, thermal, geom, strain_rate, mat_rheol, aux>>

\* the get_numbers calls that end validate_parameters, one per material array
GetNumbers ==
    /\ pc = "get_numbers"
    /\ \E garbage \in Chars :
          IF \E k \in 1 .. Len(MatArrayKeys) :
                 get_numbers_exits(cfg, MatArrayKeys[k], garbage)
          THEN pc' = "exit" /\ exit_code' = 1
          ELSE pc' = "init" /\ exit_code' = exit_code
    /\ UNCHANGED <<param, clock, kinem, thermal, geom, strain_rate, mat_rheol, aux>>

NextCfg ==
    \/ ReadParametersFromFile
    \/ ValidateParameters
    \/ GetNumbers
    \/ Next

SpecCfg == InitCfg /\ [][NextCfg]_vars


\* the configuration was read and validated, the program went on from there
Validated ==
    pc \notin {"read_parameters_from_file", "validate_parameters", "get_numbers"}

OnlyMaxTime ==
    Count(cfg, "sim.max_time_in_yr") /\ ~Count(cfg, "sim.max_steps")

OnlyMaxSteps ==
    Count(cfg, "sim.max_steps") /\ ~Count(cfg, "sim.max_time_in_yr")

\* C17: a configuration with neither sim.max_steps nor sim.max_time_in_yr
\* ends with exit status 1 before any step; with exactly one of them given,
\* the test on the missing one never is what stops the run: when the loop is
\* left, the test on the missing one still holds.
C17_Original ==
    /\ (Validated /\ ~Count(cfg, "sim.max_steps")
                  /\ ~Count(cfg, "sim.max_time_in_yr")) =>
           (pc = "exit" /\ exit_code = 1 /\ steps = 0)
    /\ (pc = "done" /\ OnlyMaxTime) => steps < param.max_steps
    /\ (pc = "done" /\ OnlyMaxSteps) => RLe(time, param.max_time)

OnlyOutputTime ==
    /\ Count(cfg, "sim.output_time_interval_in_yr")
    /\ ~Count(cfg, "sim.output_step_interval")

\* C18: with only sim.output_time_interval_in_yr given, the comparison
\* steps == frame * output_step_interval is false whenever the output
\* condition is evaluated, for every steps and frame the run reaches.
C18_Original ==
    (pc = "output" /\ OnlyOutputTime) => StepDueOutcomes = {FALSE}

\* the keys the 2D program needs
RequiredKeys2D == RequiredKeys \ {"mesh.ylength"}

\* C19: reading the configuration of the 2D program succeeds when
\* mesh.xlength, mesh.zlength, mesh.resolution and mat.rheology_type are
\* given, with or without mesh.ylength, and ends with exit status 1 when one
\* of these four is missing.
C19_Step ==
    pc = "read_parameters_from_file" =>
        IF RequiredKeys2D \subseteq cfg.keys
        THEN pc' = "validate_parameters"
        ELSE pc' = "exit" /\ exit_code' = 1

C19_Original == [][C19_Step]_vars

\* the stopping and the output keys are there, validate_parameters gets as
\* far as the rheology name
SimKeysGiven ==
    /\ Count(cfg, "sim.max_steps") \/ Count(cfg, "sim.max_time_in_yr")
    /\ Count(cfg, "sim.output_step_interval")
          \/ Count(cfg, "sim.output_time_interval_in_yr")

\* validate_parameters, reaching the rheology name, accepts exactly the names
\* in names, gives each its own rheology type, and ends the program with
\* status 1 for any other string without going on to the material arrays
RheologyStep(names) ==
    (pc = "validate_parameters" /\ SimKeysGiven) =>
        IF cfg.rheology_type \in names
        THEN /\ pc' = "get_numbers"
             /\ param'.rheol_type \in RheolTypes
             /\ \A other \in names \ {cfg.rheology_type} :
                    param'.rheol_type # rheol_type_of(other)
        ELSE pc' = "exit" /\ exit_code' = 1

\* the names of the statement
ClaimedRheologyNames ==
    {"elastic", "viscous", "maxwell", "elasto-plastic", "elasto-visco-plastic"}

\* C21 (as stated): elastic, viscous, maxwell, elasto-plastic and
\* elasto-visco-plastic are accepted and mapped to distinct types, any other
\* string ends the program before the material arrays are parsed.
C21_Original == [][RheologyStep(ClaimedRheologyNames)]_vars

\* C21: elastic, viscous, maxwell, elasto-plastic and elasto-viscous-plastic
\* are accepted and mapped each to its own rheology type; any other string,
\* elasto-visco-plastic included, ends the program with status 1 before the
\* material arrays are parsed.
C21_RheologyNames ==
    [][RheologyStep(RheologyNames) /\ "elasto-visco-plastic" \notin RheologyNames]_vars

C21_Witness ==
    /\ pc = "get_numbers"
    /\ cfg.rheology_type = "elasto-viscous-plastic"
    /\ param.rheol_type = rh_evp

\* ------------------------------------------------------------------------
\* ic.cxx: initial_weak_zone on the initial mesh (2D build)
\* ------------------------------------------------------------------------

\* std::tan(a * DEG2RAD) for the inclinations of the model, 45 and 135
\* degrees: 1 and -1 up to rounding
TanDeg(a) == IF a = 45 THEN R(1) ELSE R(-1)

\* exp(-x) for x >= 0: 1 at 0, a value strictly between 0 and 1 otherwise,
\* for which the model takes 1 / (1 + x)
ExpNeg(x) == RInv(RAdd(R(1), x))

RSq(a) == RMul(a, a)

\* Empty_zone::contains
Empty_zone_contains(x) == FALSE

\* Planar_zone::contains, the zone being its members incl, halfwidth, zmin,
\* zmax and the point x0
Planar_zone_contains(zone, x) ==
    /\ RLt(zone.zmin, x[NDIMS - 1])
    /\ RLt(x[NDIMS - 1], zone.zmax)
    /\ RLt(RAbs(RAdd(RSub(x[0], zone.x0[0]),
                     RMul(zone.incl, RSub(x[NDIMS - 1], zone.x0[NDIMS - 1])))),
           zone.halfwidth)

\* Ellipsoidal_zone::contains, the zone being x0 and semi_axis2
Ellipsoidal_zone_contains(zone, x) ==
    RLt(RAdd(RDiv(RSq(RSub(x[0], zone.x0[0])), zone.semi_axis2[0]),
             RDiv(RSq(RSub(x[NDIMS - 1], zone.x0[NDIMS - 1])),
                  zone.semi_axis2[NDIMS - 1])),
        R(1))

\* the squared distance both Gaussian classes compute
Dist2(x0, x) ==
    RAdd(RSq(RSub(x[0], x0[0])), RSq(RSub(x[NDIMS - 1], x0[NDIMS - 1])))

\* Gaussian_distribution_point_zone::contains
Gaussian_distribution_point_zone_contains(zone, x) ==
    RLt(Dist2(zone.x0, x),
        RMul(RMul(zone.standard_deviation, zone.standard_deviation), R(16)))

\* Constant_value::contains
Constant_value_contains(x) == R(1)

\* Gaussian_distribution_point_value::contains
Gaussian_distribution_point_value_contains(zone, x) ==
    ExpNeg(RDiv(Dist2(zone.x0, x),
                RMul(RMul(R(2), zone.standard_deviation), zone.standard_deviation)))

\* the switch of initial_weak_zone: the zone built for weakzone_option
WeakZone(p) ==
    LET center == [d \in Dims |->
                      IF d = 0 THEN RMul(p.weakzone_xcenter, R(xlength))
                      ELSE RMul(RNeg(p.weakzone_zcenter), R(zlength))]
    IN  [x0 |-> center,
         incl |-> RInv(TanDeg(p.weakzone_inclination)),
         halfwidth |-> RMul(p.weakzone_halfwidth, R(resolution)),
         zmin |-> RMul(RNeg(p.weakzone_depth_max), R(zlength)),
         zmax |-> RMul(RNeg(p.weakzone_depth_min), R(zlength)),
         semi_axis2 |-> [d \in Dims |->
                            IF d = 0 THEN RSq(p.weakzone_xsemi_axis)
                            ELSE RSq(p.weakzone_zsemi_axis)],
         standard_deviation |-> p.weakzone_standard_deviation]

\* weakzone->contains(center)
weakzone_contains(p, x) ==
    CASE p.weakzone_option = 0 -> Empty_zone_contains(x)
      [] p.weakzone_option = 1 -> Planar_zone_contains(WeakZone(p), x)
      [] p.weakzone_option = 2 -> Ellipsoidal_zone_contains(WeakZone(p), x)
      [] p.weakzone_option = 3 ->
             Gaussian_distribution_point_zone_contains(WeakZone(p), x)

\* weakvalue->contains(center)
weakvalue_contains(p, x) ==
    IF p.weakzone_option = 3
    THEN Gaussian_distribution_point_value_contains(WeakZone(p), x)
    ELSE Constant_value_contains(x)

\* the coordinate of the center of element e
ElemCenter(x, e) ==
    [d \in Dims |->
        RDiv(RAdd(RAdd(RAdd(R(0), x[connectivity[e][0]][d]),
                       x[connectivity[e][1]][d]),
                  x[connectivity[e][2]][d]),
             R(NODES_PER_ELEM))]

\* variant: the value is stored for every element
initial_weak_zone_everywhere(p, x, plstrain) ==
    IF p.weakzone_option \notin 0 .. 3
    THEN [exit |-> TRUE, plstrain |-> plstrain, written |-> {}]
    ELSE [exit |-> FALSE,
          plstrain |-> [e \in Elems |->
              RMul(p.weakzone_plstrain, weakvalue_contains(p, ElemCenter(x, e)))],
          written |-> Elems]

\* void initial_weak_zone(param, var, plstrain); exit: std::exit(1) was
\* called; written: the elements whose plstrain entry was assigned
initial_weak_zone(p, x, plstrain) ==
    IF p.weakzone_option \notin 0 .. 3
    THEN [exit |-> TRUE, plstrain |-> plstrain, written |-> {}]
    ELSE [exit |-> FALSE,
          plstrain |-> [e \in Elems |->
              IF weakzone_contains(p, ElemCenter(x, e))
              THEN RMul(p.weakzone_plstrain, weakvalue_contains(p, ElemCenter(x, e)))
              ELSE plstrain[e]],
          written |-> {e \in Elems : weakzone_contains(p, ElemCenter(x, e))}]

\* the ic parameters of the model; option 4 is not a weak zone option
WeakZoneOptions == 0 .. 4

WeakZoneParams ==
    [weakzone_option : WeakZoneOptions,
     weakzone_plstrain : {<<1, 2>>},
     weakzone_xcenter : {<<1, 3>>, <<1, 2>>},
     weakzone_zcenter : {<<1, 2>>},
     weakzone_xsemi_axis : {R(0), R(1), R(3)},
     weakzone_zsemi_axis : {R(1), R(2)},
     weakzone_inclination : {45, 135},
     weakzone_halfwidth : {<<1, 2>>, R(1)},
     weakzone_depth_min : {R(0)},
     weakzone_depth_max : {<<1, 2>>, R(1)},
     weakzone_standard_deviation : {<<1, 4>>, R(1)}]

\* initial_weak_zone is called on the mesh of create_new_mesh with the
\* plstrain array as allocate_variables leaves it
WeakZoneCalls ==
    { [fn |-> "initial_weak_zone", param |-> p, coord |-> Coord0,
       plstrain |-> ZeroElems] : p \in WeakZoneParams }

\* ------------------------------------------------------------------------
\* initial_stress_state: the function of dynearthsol.cxx, which main() calls
\* through init, and the function of the same name in ic.cxx
\* ------------------------------------------------------------------------

\* var.mat->bulkm(0) of the single material
MatBulkm == 3

DiagComps == 0 .. (NDIMS - 1)

\* zcenter of element e
ZCenter(x, e) ==
    RDiv(RAdd(RAdd(RAdd(R(0), x[connectivity[e][0]][NDIMS - 1]),
                   x[connectivity[e][1]][NDIMS - 1]),
              x[connectivity[e][2]][NDIMS - 1]),
         R(NODES_PER_ELEM))

\* dynearthsol.cxx: void initial_stress_state(param, var, stress, strain,
\* compensation_pressure); written: the (element, component) pairs assigned
initial_stress_state(p, x, stress, strain) ==
    IF p.gravity = R(0)
    THEN [stress |-> stress, strain |-> strain, stressyy |-> None,
          compensation_pressure |-> R(0), written |-> {}]
    ELSE [stress |-> [e \in Elems |-> [i \in 0 .. (NSTR - 1) |->
              IF i < NDIMS
              THEN RMul(RMul(RNeg(R(MatDensity)), p.gravity), ZCenter(x, e))
              ELSE stress[e][i]]],
          strain |-> [e \in Elems |-> [i \in 0 .. (NSTR - 1) |->
              IF i < NDIMS
              THEN RDiv(RDiv(RMul(RMul(RNeg(R(MatDensity)), p.gravity),
                                  ZCenter(x, e)),
                             R(MatBulkm)),
                        R(NDIMS))
              ELSE strain[e][i]]],
          stressyy |-> None,
          compensation_pressure |->
              RMul(RMul(R(MatDensity), p.gravity), R(zlength)),
          written |-> Elems \X DiagComps]

\* ref_pressure(param, z) for control.ref_pressure_option = 0
ref_pressure(p, z) == RMul(RMul(R(MatDensity), p.gravity), RAbs(z))

\* ic.cxx: void initial_stress_state(param, var, stress, stressyy, strain,
\* compensation_pressure), for control.ref_pressure_option = 0
ic_initial_stress_state(p, x, stress, stressyy, strain) ==
    IF p.gravity = R(0)
    THEN [stress |-> stress, strain |-> strain, stressyy |-> stressyy,
          compensation_pressure |-> R(0), written |-> {}]
    ELSE [stress |-> [e \in Elems |-> [i \in 0 .. (NSTR - 1) |->
              IF i < NDIMS THEN RNeg(ref_pressure(p, ZCenter(x, e)))
              ELSE stress[e][i]]],
          strain |-> [e \in Elems |-> [i \in 0 .. (NSTR - 1) |->
              IF i < NDIMS
              THEN RDiv(RDiv(RNeg(ref_pressure(p, ZCenter(x, e))), R(MatBulkm)),
                        R(NDIMS))
              ELSE strain[e][i]]],
          stressyy |-> [e \in Elems |->
              IF p.is_plane_strain THEN RNeg(ref_pressure(p, ZCenter(x, e)))
              ELSE stressyy[e]],
          compensation_pressure |-> ref_pressure(p, RNeg(R(zlength))),
          written |-> Elems \X DiagComps]

GravityValues == {R(0), R(1), R(10)}

\* both functions are called once, on the mesh of create_new_mesh and the
\* zeroed arrays of allocate_variables
StressCalls ==
    { [fn |-> f, param |-> [gravity |-> g, is_plane_strain |-> b],
       coord |-> Coord0, stress |-> ZeroStr, strain |-> ZeroStr,
       stressyy |-> ZeroElems] :
        f \in {"initial_stress_state", "ic_initial_stress_state"},
        g \in GravityValues, b \in BOOLEAN }

InitIC ==
    /\ MainIdle
    /\ cfg = None
    /\ call \in WeakZoneCalls \cup StressCalls
    /\ ret = None
    /\ rpc = "idle" /\ mesh = None /\ old_mesh = None /\ q = None
    /\ points_to_delete = <<>> /\ tri = None

InitialWeakZone ==
    /\ call # None /\ call.fn = "initial_weak_zone"
    /\ ret = None
    /\ ret' = initial_weak_zone(call.param, call.coord, call.plstrain)
    /\ UNCHANGED <<pc, exit_code, param, clock, kinem, thermal, geom,
                   strain_rate, mat_rheol, cfg, call, remeshing>>

InitialStressState ==
    /\ call # None /\ call.fn = "initial_stress_state"
    /\ ret = None
    /\ ret' = initial_stress_state(call.param, call.coord, call.stress, call.strain)
    /\ UNCHANGED <<pc, exit_code, param, clock, kinem, thermal, geom,
                   strain_rate, mat_rheol, cfg, call, remeshing>>

IcInitialStressState ==
    /\ call # None /\ call.fn = "ic_initial_stress_state"
    /\ ret = None
    /\ ret' = ic_initial_stress_state(call.param, call.coord, call.stress,
                                      call.stressyy, call.strain)
    /\ UNCHANGED <<pc, exit_code, param, clock, kinem, thermal, geom,
                   strain_rate, mat_rheol, cfg, call, remeshing>>

NextIC ==
    \/ InitialWeakZone
    \/ InitialStressState
    \/ IcInitialStressState

SpecIC == InitIC /\ [][NextIC]_vars

WeakZoneReturned == call # None /\ call.fn = "initial_weak_zone" /\ ret # None

\* the centroid of element e of the call lies strictly inside the ellipse
\* with the center and the semi-axes of the configuration
InsideEllipse(c, e) ==
    LET x0 == RMul(c.param.weakzone_xcenter, R(xlength))
        z0 == RNeg(RMul(c.param.weakzone_zcenter, R(zlength)))
        a2 == RSq(c.param.weakzone_xsemi_axis)
        b2 == RSq(c.param.weakzone_zsemi_axis)
        cx == RDiv(RAdd(RAdd(c.coord[connectivity[e][0]][0],
                             c.coord[connectivity[e][1]][0]),
                        c.coord[connectivity[e][2]][0]), R(3))
        cz == RDiv(RAdd(RAdd(c.coord[connectivity[e][0]][1],
                             c.coord[connectivity[e][1]][1]),
                        c.coord[connectivity[e][2]][1]), R(3))
    IN  RLt(RAdd(RMul(RSq(RSub(cx, x0)), b2), RMul(RSq(RSub(cz, z0)), a2)),
            RMul(a2, b2))

\* C22: after initial_weak_zone with the ellipsoidal option every element
\* with centroid inside the ellipsoid has plstrain = weakzone_plstrain and
\* every other element has plstrain = 0; for every option plstrain[e] is
\* written only for the elements whose centroid the zone contains (none for
\* option 0); an unknown option ends the program and writes no plstrain.
C22_WeakZone ==
    WeakZoneReturned =>
        /\ call.param.weakzone_option = 2 =>
              /\ ~ret.exit
              /\ \A e \in Elems :
                    ret.plstrain[e] = IF InsideEllipse(call, e)
                                      THEN call.param.weakzone_plstrain
                                      ELSE R(0)
        /\ call.param.weakzone_option \in 0 .. 3 =>
              /\ ~ret.exit
              /\ ret.written =
                    {e \in Elems :
                        weakzone_contains(call.param, ElemCenter(call.coord, e))}
              /\ \A e \in Elems \ ret.written : ret.plstrain[e] = call.plstrain[e]
        /\ call.param.weakzone_option = 0 => ret.written = {}
        /\ call.param.weakzone_option \notin 0 .. 3 =>
              ret.exit /\ ret.written = {} /\ ret.plstrain = call.plstrain

C22_Witness ==
    /\ WeakZoneReturned
    /\ call.param.weakzone_option = 2
    /\ \E e1, e2 \in Elems :
          /\ InsideEllipse(call, e1) /\ ~InsideEllipse(call, e2)
          /\ ret.plstrain[e1] = call.param.weakzone_plstrain
          /\ ret.plstrain[e2] = R(0)

StressReturned ==
    /\ call # None
    /\ call.fn \in {"initial_stress_state", "ic_initial_stress_state"}
    /\ ret # None

\* p = rho * g * |z_centroid| of element e
LithostaticP(c, e) ==
    LET zsum == RAdd(RAdd(c.coord[connectivity[e][0]][1],
                          c.coord[connectivity[e][1]][1]),
                     c.coord[connectivity[e][2]][1])
    IN  RMul(RMul(R(MatDensity), c.param.gravity), RAbs(RDiv(zsum, R(3))))

\* C23: after initial_stress_state with gravity != 0 (reference pressure
\* option 0) every element has its NDIMS diagonal stress components equal to
\* -p, p = rho * g * |z_centroid| >= 0, so nonpositive below z = 0, its
\* off-diagonal components 0 and its diagonal strain -p / (K * NDIMS); with
\* gravity = 0 stress and strain are unchanged and compensation_pressure is 0.
C23_Original ==
    StressReturned =>
        IF call.param.gravity # R(0)
        THEN \A e \in Elems :
                /\ RLe(R(0), LithostaticP(call, e))
                /\ \A i \in DiagComps :
                      /\ ret.stress[e][i] = RNeg(LithostaticP(call, e))
                      /\ RLe(ret.stress[e][i], R(0))
                      /\ ret.strain[e][i] =
                            RDiv(RNeg(LithostaticP(call, e)), R(MatBulkm * NDIMS))
                /\ \A i \in NDIMS .. (NSTR - 1) : ret.stress[e][i] = R(0)
        ELSE /\ ret.stress = call.stress /\ ret.strain = call.strain
             /\ ret.written = {}
             /\ ret.compensation_pressure = R(0)

\* ------------------------------------------------------------------------
\* is_bottom_corner as a function of the flag, in the 2D and the 3D build
\* ------------------------------------------------------------------------

\* THREED branch of is_bottom_corner: flag & (BOUNDX0 | BOUNDY0) || ...
is_bottom_corner_THREED(flag) ==
    IF ~HasFlag(flag, BOUNDZ0) THEN FALSE
    ELSE IF \/ AnyFlag(flag, {BOUNDX0, BOUNDY0}) \/ AnyFlag(flag, {BOUNDX0, BOUNDY1})
            \/ AnyFlag(flag, {BOUNDX1, BOUNDY0}) \/ AnyFlag(flag, {BOUNDX1, BOUNDY1})
    THEN TRUE
    ELSE FALSE

\* every combination of the six boundary bits
AllFlags == 0 .. (2 * BOUNDZ1 - 1)

CornerCalls ==
    { [fn |-> "is_bottom_corner", flag |-> f, THREED |-> b] :
        f \in AllFlags, b \in BOOLEAN }

InitCorner ==
    /\ MainIdle
    /\ cfg = None
    /\ call \in CornerCalls
    /\ ret = None
    /\ rpc = "idle" /\ mesh = None /\ old_mesh = None /\ q = None
    /\ points_to_delete = <<>> /\ tri = None

IsBottomCorner ==
    /\ call # None /\ call.fn = "is_bottom_corner"
    /\ ret = None
    /\ ret' = [ret |-> IF call.THREED THEN is_bottom_corner_THREED(call.flag)
                       ELSE is_bottom_corner(call.flag)]
    /\ UNCHANGED <<pc, exit_code, param, clock, kinem, thermal, geom,
                   strain_rate, mat_rheol, cfg, call, remeshing>>

NextCorner == IsBottomCorner

SpecCorner == InitCorner /\ [][NextCorner]_vars

\* C24: is_bottom_corner(flag) is true exactly when the flag has BOUNDZ0 and
\* one of BOUNDX0/BOUNDX1 and, in 3D, also one of BOUNDY0/BOUNDY1; a bottom
\* node on only one side wall in 3D is not a corner.
C24_Original ==
    (call # None /\ call.fn = "is_bottom_corner" /\ ret # None) =>
        (ret.ret <=>
            /\ HasFlag(call.flag, BOUNDZ0)
            /\ HasFlag(call.flag, BOUNDX0) \/ HasFlag(call.flag, BOUNDX1)
            /\ call.THREED =>
                  (HasFlag(call.flag, BOUNDY0) \/ HasFlag(call.flag, BOUNDY1)))

\* the points the bottom reshape of this remeshing has deleted
ReshapeDeleted ==
    IF param.restoring_bottom
    THEN BottomPointsToDelete(mesh.bcflag, old_mesh.coord,
                              RNeg(R(param.zlength)), min_dist(param))
    ELSE <<>>

\* the old node whose point is in slot i of qcoord after the bottom reshape:
\* the moves of delete_points applied to the node numbers
SlotNode(i) ==
    DeletePointsLoop(ReshapeDeleted, Len(ReshapeDeleted),
                     Cardinality(DOMAIN old_mesh.coord) - 1, 0,
                     [n \in DOMAIN old_mesh.coord |-> n], Empty).coord[i]

AllBoundaries == {BOUNDX0, BOUNDX1, BOUNDY0, BOUNDY1, BOUNDZ0, BOUNDZ1}

\* C25: no point that find_points_of_tiny_elem marks belongs to a node with
\* a boundary flag or is referenced by a segment, also when the bottom
\* reshape of the same remeshing has deleted points and moved others into
\* the freed slots.
C25_Original ==
    rpc = "retry" =>
        \A k \in 1 .. Len(points_to_delete) :
            /\ ~AnyFlag(mesh.bcflag[SlotNode(points_to_delete[k])], AllBoundaries)
            /\ \A s \in 0 .. (q.nseg - 1) : \A j \in 0 .. (NODES_PER_FACET - 1) :
                  q.segment[s][j] # points_to_delete[k]

\* ------------------------------------------------------------------------
\* delete_points and delete_facets as functions of their arguments
\* ------------------------------------------------------------------------
MaxPoints == 4
MaxSegs == 2
MaxFacets == 3

\* the members of a set of indices in ascending order
RECURSIVE Ascending(_)
Ascending(S) ==
    IF S = {} THEN <<>>
    ELSE LET m == CHOOSE x \in S : \A y \in S : y <= x
         IN  Append(Ascending(S \ {m}), m)

\* point i of the calls lies at (i, -i): every point has its own coordinates
PointAt(i) == Arr(<<R(i), R(-i)>>)

\* arrays of n segments with entries from a set
SegmentArrays(n, entries) ==
    [0 .. (n - 1) -> [0 .. (NODES_PER_FACET - 1) -> entries]]

\* delete_points called with n points, the list D and the segment array seg
DeletePointsArgs(n, D, ns, seg) ==
    [fn |-> "delete_points", ptd |-> Ascending(D),
     q |-> [coord |-> [i \in 0 .. (n - 1) |-> PointAt(i)],
            segment |-> seg,
            segflag |-> [i \in 0 .. (ns - 1) |-> BOUNDZ1],
            nnode |-> n, nseg |-> ns]]

FacetFlags == {BOUNDX0, BOUNDZ0}

\* delete_facets called with the arrays seg and flg of ns segments
DeleteFacetsArgs(ns, seg, flg) ==
    [fn |-> "delete_facets",
     q |-> [coord |-> [i \in 0 .. 1 |-> PointAt(i)],
            segment |-> seg, segflag |-> flg,
            nnode |-> 2, nseg |-> ns]]

InitDelete ==
    /\ MainIdle
    /\ cfg = None
    /\ \/ \E n \in 2 .. MaxPoints : \E ns \in 0 .. MaxSegs :
          \E D \in SUBSET (0 .. (n - 1)) :
          \E seg \in SegmentArrays(ns, (0 .. (n - 1)) \cup {DELETED_FACET}) :
              call = DeletePointsArgs(n, D, ns, seg)
       \/ \E ns \in 0 .. MaxFacets :
          \E seg \in SegmentArrays(ns, {0, 1, DELETED_FACET}) :
          \E flg \in [0 .. (ns - 1) -> FacetFlags] :
              call = DeleteFacetsArgs(ns, seg, flg)
    /\ ret = None
    /\ rpc = "idle" /\ mesh = None /\ old_mesh = None /\ q = None
    /\ points_to_delete = <<>> /\ tri = None

DeletePointsCall ==
    /\ call # None /\ call.fn = "delete_points"
    /\ ret = None
    /\ ret' = delete_points(call.ptd, call.q)
    /\ UNCHANGED <<pc, exit_code, param, clock, kinem, thermal, geom,
                   strain_rate, mat_rheol, cfg, call, remeshing>>

DeleteFacetsCall ==
    /\ call # None /\ call.fn = "delete_facets"
    /\ ret = None
    /\ ret' = delete_facets(call.q)
    /\ UNCHANGED <<pc, exit_code, param, clock, kinem, thermal, geom,
                   strain_rate, mat_rheol, cfg, call, remeshing>>

NextDelete ==
    \/ DeletePointsCall
    \/ DeleteFacetsCall

SpecDelete == InitDelete /\ [][NextDelete]_vars

PointsDeleted == call # None /\ call.fn = "delete_points" /\ ret # None

ToDelete == {call.ptd[k] : k \in 1 .. Len(call.ptd)}

\* no entry of a segment designates a point of the list
NoneReferenced ==
    \A s \in 0 .. (call.q.nseg - 1) : \A j \in 0 .. (NODES_PER_FACET - 1) :
        call.q.segment[s][j] \notin ToDelete

\* C26: delete_points, given an ascending list D of distinct indices none of
\* which a surviving segment references, reduces npoints by |D|, leaves in
\* the slots [0, npoints) exactly the coordinates of the points not in D,
\* each once, and rewrites the segments so that every entry lies in
\* [0, npoints) and designates the same coordinates as before; DELETED_FACET
\* entries are left untouched.
C26_DeletePoints ==
    (PointsDeleted /\ NoneReferenced) =>
        /\ ret.nnode = call.q.nnode - Cardinality(ToDelete)
        /\ \A i \in (0 .. (call.q.nnode - 1)) \ ToDelete :
              Cardinality({s \in 0 .. (ret.nnode - 1) :
                              ret.coord[s] = call.q.coord[i]}) = 1
        /\ \A s \in 0 .. (call.q.nseg - 1) : \A j \in 0 .. (NODES_PER_FACET - 1) :
              IF call.q.segment[s][j] = DELETED_FACET
              THEN ret.segment[s][j] = DELETED_FACET
              ELSE /\ ret.segment[s][j] \in 0 .. (ret.nnode - 1)
                   /\ ret.coord[ret.segment[s][j]] =
                         call.q.coord[call.q.segment[s][j]]

\* two points are deleted, the last point moves twice, and a segment that
\* references it follows it
C26_Witness ==
    /\ PointsDeleted /\ NoneReferenced
    /\ call.q.nnode = 4 /\ call.ptd = <<0, 2>>
    /\ call.q.nseg = 2
    /\ call.q.segment[0] = Arr(<<3, 1>>)
    /\ call.q.segment[1] = Arr(<<DELETED_FACET, DELETED_FACET>>)
    /\ ret.segment[0] = Arr(<<0, 1>>)
    /\ ret.coord[0] = PointAt(3)

FacetsDeleted == call # None /\ call.fn = "delete_facets" /\ ret # None

Marked(seg) == \A j \in 0 .. (NODES_PER_FACET - 1) : seg[j] = DELETED_FACET

PartlyMarked(seg) ==
    /\ \E j \in 0 .. (NODES_PER_FACET - 1) : seg[j] = DELETED_FACET
    /\ \E j \in 0 .. (NODES_PER_FACET - 1) : seg[j] # DELETED_FACET

\* C27: delete_facets ends the program with status 1 whenever some segment
\* has DELETED_FACET in at least one but not all of its components, whichever
\* component holds it.
C27_Original ==
    (FacetsDeleted /\ \E s \in 0 .. (call.q.nseg - 1) : PartlyMarked(call.q.segment[s]))
        => ret.exit

\* the slots among 0 .. n-1 that hold the segment seg with the flag flg
SlotsWith(qq, n, seg, flg) ==
    {s \in 0 .. (n - 1) : qq.segment[s] = seg /\ qq.segflag[s] = flg}

\* C29: delete_facets, when no segment is partly marked, returns with nseg
\* equal to the number of unmarked segments, no DELETED_FACET entry in the
\* segments [0, nseg), and exactly the unmarked segments kept, each with its
\* own segflag.
C29_DeleteFacets ==
    (FacetsDeleted /\ \A s \in 0 .. (call.q.nseg - 1) : ~PartlyMarked(call.q.segment[s]))
        => /\ ~ret.exit
           /\ ret.q.nseg =
                 Cardinality({s \in 0 .. (call.q.nseg - 1) : ~Marked(call.q.segment[s])})
           /\ \A s \in 0 .. (ret.q.nseg - 1) : \A j \in 0 .. (NODES_PER_FACET - 1) :
                 ret.q.segment[s][j] # DELETED_FACET
           /\ \A s \in 0 .. (call.q.nseg - 1) :
                 ~Marked(call.q.segment[s]) =>
                     Cardinality(SlotsWith(ret.q, ret.q.nseg, call.q.segment[s],
                                           call.q.segflag[s]))
                       = Cardinality(SlotsWith(call.q, call.q.nseg, call.q.segment[s],
                                               call.q.segflag[s]))

\* the first of three segments is marked and the last one, which has another
\* flag than the second, takes its slot
C29_Witness ==
    /\ FacetsDeleted
    /\ call.q.nseg = 3
    /\ Marked(call.q.segment[0])
    /\ call.q.segment[1] = Arr(<<0, 1>>) /\ call.q.segflag[1] = BOUNDX0
    /\ call.q.segment[2] = Arr(<<1, 0>>) /\ call.q.segflag[2] = BOUNDZ0
    /\ ~ret.exit /\ ret.q.nseg = 2
    /\ ret.q.segment[0] = Arr(<<1, 0>>) /\ ret.q.segflag[0] = BOUNDZ0


\* ------------------------------------------------------------------------
\* new_bottom as a function of its arguments
\* ------------------------------------------------------------------------

\* numbers of points and of segments of the arrays given to new_bottom
BottomPoints == 3
MaxBottomSegs == 2

\* bcflag values of an interior node, a bottom node, the two bottom corners
\* and a top corner
BottomFlags == {0, BOUNDZ0, BOUNDX0 + BOUNDZ0, BOUNDX1 + BOUNDZ0, BOUNDX1 + BOUNDZ1}

\* point i lies at x = i, on the bottom depth -4 or above it
BottomDepths == {R(-4), R(-3)}

BottomSegFlags == {BOUNDX0, BOUNDZ0}

InitBottom ==
    /\ MainIdle
    /\ cfg = None
    /\ \E n \in 0 .. MaxBottomSegs :
       \E flags \in [0 .. (BottomPoints - 1) -> BottomFlags] :
       \E zs \in [0 .. (BottomPoints - 1) -> BottomDepths] :
       \E sf \in [0 .. (n - 1) -> BottomSegFlags] :
          call = [fn |-> "new_bottom",
                  old_bcflag |-> flags,
                  bottom_depth |-> R(-4),
                  min_dist |-> R(1),
                  q |-> [coord |-> [i \in 0 .. (BottomPoints - 1) |-> Arr(<<R(i), zs[i]>>)],
                         segment |-> [s \in 0 .. (n - 1) |->
                                         Arr(<<s % BottomPoints, (s + 1) % BottomPoints>>)],
                         segflag |-> sf,
                         nnode |-> BottomPoints,
                         nseg |-> n]]
    /\ ret = None
    /\ rpc = "idle" /\ mesh = None /\ old_mesh = None /\ q = None
    /\ points_to_delete = <<>> /\ tri = None

NewBottomCall ==
    /\ call # None /\ call.fn = "new_bottom"
    /\ ret = None
    /\ ret' = new_bottom(call.old_bcflag, call.q, call.bottom_depth, call.min_dist)
    /\ UNCHANGED <<pc, exit_code, param, clock, kinem, thermal, geom,
                   strain_rate, mat_rheol, cfg, call, remeshing>>

NextBottom == NewBottomCall

SpecBottom == InitBottom /\ [][NextBottom]_vars

BottomReturned == call # None /\ call.fn = "new_bottom" /\ ret # None

\* the nodes that carry BOUNDZ0 and one of BOUNDX0, BOUNDX1
CornerNodes(old_bcflag) ==
    {i \in DOMAIN old_bcflag :
        /\ HasFlag(old_bcflag[i], BOUNDZ0)
        /\ HasFlag(old_bcflag[i], BOUNDX0) \/ HasFlag(old_bcflag[i], BOUNDX1)}

\* C28: new_bottom ends the program with status 1 if and only if the number
\* of bottom corners it finds differs from 2^(NDIMS-1), and then no
\* coordinate, segment or segflag entry has been changed.
C28_CornerCount ==
    BottomReturned =>
        /\ ret.exit <=> Cardinality(CornerNodes(call.old_bcflag)) # 2 ^ (NDIMS - 1)
        /\ ret.exit => /\ ret.q.coord = call.q.coord
                       /\ ret.q.segment = call.q.segment
                       /\ ret.q.segflag = call.q.segflag

\* one corner only, lying above the bottom depth, and a bottom segment: the
\* program ends with the corner not moved and the segment not marked
C28_Witness ==
    /\ BottomReturned
    /\ Cardinality(CornerNodes(call.old_bcflag)) = 1
    /\ \E i \in CornerNodes(call.old_bcflag) : call.q.coord[i][NDIMS - 1] # call.bottom_depth
    /\ call.q.nseg = 2 /\ call.q.segflag[0] = BOUNDZ0
    /\ ret.exit
    /\ ret.q = call.q

\* C30: the loop of new_bottom that rebuilds the bottom facets reads and
\* writes segflag and segment only at indices in [0, nseg) and ends, also
\* when fewer than NDIMS-1 segments have the flag BOUNDZ0.
C30_Original == BottomReturned => ~ret.oob

====
